---- MODULE Spec2Model ----
(***************************************************************************)
(* unemail: the hand-rolled SMTP engine (provider built on node:net) and   *)
(* the EmailService facade in front of it.                                 *)
(*                                                                         *)
(* One sendEmail call at a time is followed from the facade or the         *)
(* provider down to the bytes on the socket.  Text is modelled as a        *)
(* sequence of one-character strings so that String.split, substring and   *)
(* the chunking of the server's bytes into 'data' events are computed as   *)
(* the code computes them.  The server is an RFC 5321 server: it answers   *)
(* each command it receives once, in order, with a code that fits its own  *)
(* state; how its bytes are cut into read events is left open.             *)
(***************************************************************************)
EXTENDS Integers, Sequences, FiniteSets, TLC

\* ------------------------------------------------------------------ bounds
MaxCalls == 2      \* sendEmail calls made one after another on one provider
MaxTo == 2         \* longest `to` array a caller passes

\* ------------------------------------------------------------- text helpers
CR == "\r"
LF == "\n"
SP == " "
HY == "-"

Str3(a, b, c) == <<a, b, c>>

C220 == Str3("2", "2", "0")
C221 == Str3("2", "2", "1")
C235 == Str3("2", "3", "5")
C250 == Str3("2", "5", "0")
C334 == Str3("3", "3", "4")
C354 == Str3("3", "5", "4")
C503 == Str3("5", "0", "3")
C535 == Str3("5", "3", "5")
C550 == Str3("5", "5", "0")
C554 == Str3("5", "5", "4")

\* String.prototype.substring(from, to) on a character sequence (0-based,
\* end exclusive, clamped to the length)
Min(a, b) == IF a < b THEN a ELSE b

substring(s, from, to) == SubSeq(s, Min(from, Len(s)) + 1, Min(to, Len(s)))

\* index of the first "\r\n" in s, 0 when there is none
FirstCRLF(s) ==
  LET hits == {i \in 1..(Len(s) - 1) : s[i] = CR /\ s[i + 1] = LF}
  IN IF hits = {} THEN 0 ELSE CHOOSE i \in hits : \A j \in hits : i <= j

\* String.prototype.split('\r\n')
RECURSIVE split(_)
split(s) ==
  LET i == FirstCRLF(s)
  IN IF i = 0 THEN <<s>>
     ELSE <<SubSeq(s, 1, i - 1)>> \o split(SubSeq(s, i + 2, Len(s)))

\* ------------------------------------------------------------ email options
\* An address is the character sequence of its `email` field.  A field that
\* holds EmailAddress | EmailAddress[] | undefined is [k, l]: k says which
\* of the three shapes the caller passed and l lists the addresses.
AddrA == <<"a", "@", "b", ".", "c", "c">>
AddrB == <<"b", "@", "b", ".", "c", "c">>
AddrBad == <<"a", "@", "b">>

Missing == [k |-> "missing", l |-> <<>>]
One(a) == [k |-> "one", l |-> <<a>>]
Many(l) == [k |-> "many", l |-> l]

Letters == {"a", "b", "c"}
LocalChars == Letters \cup {".", "%", "+", "-", "_"}
DomainChars == Letters \cup {".", "-"}

\* /^[\w.%+-]+@[a-z0-9.-]+\.[a-z]{2,}$/i
validateEmail(email) ==
  \E i \in 1..Len(email) : \E j \in 1..Len(email) :
     /\ 1 < i /\ i + 1 < j /\ j + 2 <= Len(email)
     /\ email[i] = "@" /\ email[j] = "."
     /\ \A p \in 1..(i - 1) : email[p] \in LocalChars
     /\ \A p \in (i + 1)..(j - 1) : email[p] \in DomainChars
     /\ \A p \in (j + 1)..Len(email) : email[p] \in Letters

\* errors pushed by checkAddresses for one field, in list order
RECURSIVE checkAddresses(_, _)
checkAddresses(l, field) ==
  IF l = <<>> THEN <<>>
  ELSE (IF validateEmail(Head(l)) THEN <<>> ELSE <<field>>)
       \o checkAddresses(Tail(l), field)

validateEmailOptions(o) ==
     (IF o.from.k = "missing" \/ o.from.l[1] = <<>> THEN <<"from">> ELSE <<>>)
  \o (IF o.to.k = "missing" THEN <<"to">> ELSE <<>>)
  \o (IF o.subject = <<>> THEN <<"subject">> ELSE <<>>)
  \o (IF o.text = <<>> /\ o.html = <<>> THEN <<"content">> ELSE <<>>)
  \o (IF o.from.k # "missing" /\ o.from.l[1] # <<>> /\ ~validateEmail(o.from.l[1])
      THEN <<"bad from">> ELSE <<>>)
  \o checkAddresses(o.to.l, "bad to")
  \o checkAddresses(o.cc.l, "bad cc")
  \o checkAddresses(o.bcc.l, "bad bcc")
  \o (IF o.replyTo.k # "missing" /\ ~validateEmail(o.replyTo.l[1])
      THEN <<"bad replyTo">> ELSE <<>>)

\* the options the callers of this model pass: a well-formed message with
\* one recipient, with an empty and with the longest `to` array, with cc and
\* bcc and a body that is a single dot, and the message with one fault
ToArray(n) == [i \in 1..n |-> IF i % 2 = 1 THEN AddrA ELSE AddrB]

BaseOptions ==
  [from |-> One(AddrA), to |-> One(AddrA), cc |-> Missing, bcc |-> Missing,
   replyTo |-> Missing, subject |-> <<"s">>, text |-> <<"t">>, html |-> <<>>,
   headers |-> <<>>, attachments |-> <<>>]

EmailOptionsPool ==
       {[BaseOptions EXCEPT !.to = Many(ToArray(n))] : n \in {0, MaxTo}}
  \cup {BaseOptions,
        [BaseOptions EXCEPT !.cc = One(AddrA), !.bcc = Many(<<AddrB>>),
                            !.text = <<".">>],
        [BaseOptions EXCEPT !.from = Missing],
        [BaseOptions EXCEPT !.to = Missing],
        [BaseOptions EXCEPT !.to = One(AddrBad)],
        [BaseOptions EXCEPT !.subject = <<>>],
        [BaseOptions EXCEPT !.text = <<>>]}

NoOptions ==
  [from |-> Missing, to |-> Missing, cc |-> Missing, bcc |-> Missing,
   replyTo |-> Missing, subject |-> <<>>, text |-> <<>>, html |-> <<>>,
   headers |-> <<>>, attachments |-> <<>>]

\* --------------------------------------------------------------- commands
Cmd(kind, arg) == [kind |-> kind, arg |-> arg]

\* recipients.push(...) for to, then cc, then bcc
recipients(o) == o.to.l \o o.cc.l \o o.bcc.l

RECURSIVE rcptCommands(_)
rcptCommands(l) ==
  IF l = <<>> THEN <<>> ELSE <<Cmd("RCPT", Head(l))>> \o rcptCommands(Tail(l))

\* the commands of authenticate(), sent whether or not credentials are set
authenticateAlways(hasCreds) ==
  <<Cmd("AUTH", <<>>), Cmd("USER", <<>>), Cmd("PASS", <<>>)>>

\* the commands authenticate() sends: none without user and password
authenticate(hasCreds) ==
  IF ~hasCreds THEN <<>>
  ELSE <<Cmd("AUTH", <<>>), Cmd("USER", <<>>), Cmd("PASS", <<>>)>>

\* ------------------------------------------------------------ MIME message
\* Text built by the code is a sequence of items: a literal of the source
\* stays one item, caller-provided text contributes its characters.
\* address.name is not set in the options of this model.
formatEmailAddress(address) == address

\* Array.prototype.join
RECURSIVE join(_, _)
join(parts, sep) ==
  IF parts = <<>> THEN <<>>
  ELSE IF Len(parts) = 1 THEN parts[1]
  ELSE parts[1] \o sep \o join(Tail(parts), sep)

\* addresses.map(formatEmailAddress).join(', ')
formatEmailAddresses(addresses) ==
  join([i \in 1..Len(addresses) |-> formatEmailAddress(addresses[i])], <<", ">>)

\* `----_=_NextPart_${crypto.randomBytes(16).toString('hex')}`
generateBoundary == <<"----_=_NextPart_", "hex">>

\* the base64 alphabet of Buffer.prototype.toString('base64')
Base64Alphabet ==
  << "A", "B", "C", "D", "E", "F", "G", "H", "I", "J", "K", "L", "M", "N", "O", "P",
     "Q", "R", "S", "T", "U", "V", "W", "X", "Y", "Z", "a", "b", "c", "d", "e", "f",
     "g", "h", "i", "j", "k", "l", "m", "n", "o", "p", "q", "r", "s", "t", "u", "v",
     "w", "x", "y", "z", "0", "1", "2", "3", "4", "5", "6", "7", "8", "9", "+", "/" >>

\* the concatenation of the sequences of a sequence
RECURSIVE flatten(_)
flatten(ss) ==
  IF ss = <<>> THEN <<>>
  ELSE IF Len(ss) = 1 THEN ss[1]
  ELSE LET h == Len(ss) \div 2
       IN flatten(SubSeq(ss, 1, h)) \o flatten(SubSeq(ss, h + 1, Len(ss)))

\* the four characters that encode a group of one, two or three bytes
base64Group(group) ==
  LET n == Len(group)
      v == group[1] * 65536
           + (IF n >= 2 THEN group[2] ELSE 0) * 256
           + (IF n >= 3 THEN group[3] ELSE 0)
  IN << Base64Alphabet[(v \div 262144) + 1],
        Base64Alphabet[((v \div 4096) % 64) + 1],
        IF n >= 2 THEN Base64Alphabet[((v \div 64) % 64) + 1] ELSE "=",
        IF n >= 3 THEN Base64Alphabet[(v % 64) + 1] ELSE "=" >>

\* buffer.toString('base64'): three bytes give four characters, the last
\* group is padded with "="
base64(bytes) ==
  flatten([g \in 1..((Len(bytes) + 2) \div 3) |->
             base64Group(SubSeq(bytes, 3 * g - 2, Min(3 * g, Len(bytes))))])

\* Buffer.from(string): the UTF-8 bytes of a string given as its code points
\* (below 2048 in this model)
utf8(str) ==
  flatten([i \in 1..Len(str) |->
             IF str[i] < 128 THEN <<str[i]>>
             ELSE <<192 + (str[i] \div 64), 128 + (str[i] % 64)>>])

\* the content of an attachment as base64: a string is converted with
\* Buffer.from first, a Buffer is encoded as it is
attachmentBase64(attachment) ==
  IF attachment.isString THEN base64(utf8(attachment.content))
  ELSE base64(attachment.content)

\* every chunk is one character short of the step of the loop
RECURSIVE contentChunksShort(_, _)
contentChunksShort(content, i) ==
  IF i >= Len(content) THEN <<>>
  ELSE <<substring(content, i, i + 75)>> \o contentChunksShort(content, i + 76)

\* for (let i = 0; i < content.length; i += 76)
\*   contentChunks.push(content.substring(i, i + 76))
RECURSIVE contentChunks(_, _)
contentChunks(content, i) ==
  IF i >= Len(content) THEN <<>>
  ELSE <<substring(content, i, i + 76)>> \o contentChunks(content, i + 76)

\* the lines pushed for one attachment
attachmentPart(attachment, boundary) ==
  LET contentType == IF attachment.contentType = <<>>
                     THEN <<"application/octet-stream">> ELSE attachment.contentType
      disposition == IF attachment.disposition = <<>>
                     THEN <<"attachment">> ELSE attachment.disposition
  IN << <<"--">> \o boundary,
        <<"Content-Type: ">> \o contentType \o <<"; name=\"">>
           \o attachment.filename \o <<"\"">>,
        <<"Content-Transfer-Encoding: base64">>,
        <<"Content-Disposition: ">> \o disposition \o <<"; filename=\"">>
           \o attachment.filename \o <<"\"">> >>
     \o (IF attachment.cid # <<>>
         THEN << <<"Content-ID: <">> \o attachment.cid \o <<">">> >> ELSE <<>>)
     \o << <<>>,
           join(contentChunks(attachmentBase64(attachment), 0), <<CR, LF>>),
           <<>> >>

RECURSIVE attachmentParts(_, _)
attachmentParts(attachments, boundary) ==
  IF attachments = <<>> THEN <<>>
  ELSE attachmentPart(Head(attachments), boundary)
       \o attachmentParts(Tail(attachments), boundary)

\* A header of options.headers is [key, value], in the order of
\* Object.entries.
customHeaders(o) ==
  [i \in 1..Len(o.headers) |-> o.headers[i].key \o <<": ">> \o o.headers[i].value]

\* the custom headers are pushed before Subject
headerLinesCustomFirst(o, boundary) ==
       << <<"From: ">> \o formatEmailAddress(o.from.l[1]),
          <<"To: ">> \o formatEmailAddresses(o.to.l) >>
    \o (IF o.cc.k # "missing"
        THEN << <<"Cc: ">> \o formatEmailAddresses(o.cc.l) >> ELSE <<>>)
    \o (IF o.bcc.k # "missing"
        THEN << <<"Bcc: ">> \o formatEmailAddresses(o.bcc.l) >> ELSE <<>>)
    \o (IF o.replyTo.k # "missing"
        THEN << <<"Reply-To: ">> \o formatEmailAddress(o.replyTo.l[1]) >>
        ELSE <<>>)
    \o customHeaders(o)
    \o << <<"Subject: ">> \o o.subject,
          <<"MIME-Version: 1.0">> >>
    \o << <<"Content-Type: multipart/mixed; boundary=\"">> \o boundary \o <<"\"">>,
          <<>> >>

\* the header lines pushed by buildMimeMessage and the empty line after them
headerLines(o, boundary) ==
       << <<"From: ">> \o formatEmailAddress(o.from.l[1]),
          <<"To: ">> \o formatEmailAddresses(o.to.l) >>
    \o (IF o.cc.k # "missing"
        THEN << <<"Cc: ">> \o formatEmailAddresses(o.cc.l) >> ELSE <<>>)
    \o (IF o.bcc.k # "missing"
        THEN << <<"Bcc: ">> \o formatEmailAddresses(o.bcc.l) >> ELSE <<>>)
    \o (IF o.replyTo.k # "missing"
        THEN << <<"Reply-To: ">> \o formatEmailAddress(o.replyTo.l[1]) >>
        ELSE <<>>)
    \o << <<"Subject: ">> \o o.subject,
          <<"MIME-Version: 1.0">> >>
    \o customHeaders(o)
    \o << <<"Content-Type: multipart/mixed; boundary=\"">> \o boundary \o <<"\"">>,
          <<>> >>

\* the array `message` of buildMimeMessage before it is joined.  An
\* attachment is [filename, content, isString, contentType, disposition,
\* cid], with <<>> for an optional field that is not set.
messageLines(o) ==
  LET boundary == generateBoundary
      part(type, content) ==
        IF content = <<>> THEN <<>>
        ELSE << <<"--">> \o boundary,
                <<"Content-Type: ", type, "; charset=UTF-8">>,
                <<"Content-Transfer-Encoding: 7bit">>,
                <<>>,
                content,
                <<>> >>
  IN   headerLines(o, boundary)
    \o part("text/plain", o.text)
    \o part("text/html", o.html)
    \o attachmentParts(o.attachments, boundary)
    \o << <<"--">> \o boundary \o <<"--">> >>

\* return message.join('\r\n')
buildMimeMessage(o) == join(messageLines(o), <<CR, LF>>)

\* the sendSmtpCommand calls of sendEmail, in program order
sendEmailCommands(hasCreds, o) ==
     <<Cmd("EHLO", <<>>)>>
  \o authenticate(hasCreds)
  \o <<Cmd("MAIL", o.from.l[1])>>
  \o rcptCommands(recipients(o))
  \o <<Cmd("DATA", <<>>), Cmd("PAYLOAD", <<>>)>>

\* the text of a command as sendSmtpCommand receives it: the payload is
\* `${mimeMessage}\r\n.`, built when DATA has been accepted
commandText(c, o) ==
  IF c.kind = "PAYLOAD"
  THEN Cmd("PAYLOAD", buildMimeMessage(o) \o <<CR, LF, ".">>)
  ELSE c

\* the expectedCode argument of each call
expectedCodes(kind) ==
  CASE kind = "EHLO" -> {C250}
    [] kind = "AUTH" -> {C334}
    [] kind = "USER" -> {C334}
    [] kind = "PASS" -> {C235}
    [] kind = "MAIL" -> {C250}
    [] kind = "RCPT" -> {C250}
    [] kind = "DATA" -> {C354}
    [] kind = "PAYLOAD" -> {C250}

\* a rejected command settles as if it had been accepted
onDataAcceptsAll(buf, expected) ==
  LET lines == split(buf)
  IN IF Len(lines) > 1
     THEN LET lastLine == lines[Len(lines) - 1]
          IN IF lastLine # <<>> /\ Len(lastLine) >= 3 THEN "resolve" ELSE "wait"
     ELSE "wait"

\* what onData decides for the buffer it has accumulated
onData(buf, expected) ==
  LET lines == split(buf)
  IN IF Len(lines) > 1
     THEN LET lastLine == lines[Len(lines) - 1]
          IN IF lastLine # <<>> /\ Len(lastLine) >= 3
             THEN IF substring(lastLine, 0, 3) \in expected
                  THEN "resolve" ELSE "reject"
             ELSE "wait"
     ELSE "wait"

\* the code and line onData acted on
lastLineOf(buf) == LET lines == split(buf) IN lines[Len(lines) - 1]

\* ------------------------------------------------------------------ server
Line(code, sep) == code \o <<sep, CR, LF>>

\* the bytes of a reply, each tagged with the index of the command that
\* elicited it (0 for the greeting)
Tagged(bytes, t) == [i \in 1..Len(bytes) |-> <<bytes[i], t>>]

Chars(tagged) == [i \in 1..Len(tagged) |-> tagged[i][1]]

\* The server's view of the connection it accepted last.  probe: the code of
\* the greeting it sent when that connection is the one isPortAvailable
\* opened, <<>> otherwise
ServerInit ==
  [greeted |-> FALSE, pos |-> 0, auth |-> 0, mail |-> FALSE, rcpt |-> 0,
   data |-> FALSE, quit |-> FALSE, probe |-> <<>>]

\* the server's final code for a command, given whether it is willing
ServerCode(kind, s, willing) ==
  CASE kind = "EHLO" -> IF willing THEN C250 ELSE C550
    [] kind = "AUTH" -> IF willing THEN C334 ELSE C535
    [] kind = "USER" -> IF s.auth # 1 THEN C503 ELSE IF willing THEN C334 ELSE C535
    [] kind = "PASS" -> IF s.auth # 2 THEN C503 ELSE IF willing THEN C235 ELSE C535
    [] kind = "MAIL" -> IF willing THEN C250 ELSE C550
    [] kind = "RCPT" -> IF ~s.mail THEN C503 ELSE IF willing THEN C250 ELSE C550
    [] kind = "DATA" -> IF ~s.mail \/ s.rcpt = 0 THEN C503
                        ELSE IF willing THEN C354 ELSE C554
    [] kind = "PAYLOAD" -> IF ~s.data THEN C503 ELSE IF willing THEN C250 ELSE C554
    [] kind = "QUIT" -> C221

ServerAfter(kind, s, code) ==
  CASE kind = "AUTH" -> [s EXCEPT !.pos = @ + 1, !.auth = IF code = C334 THEN 1 ELSE 0]
    [] kind = "USER" -> [s EXCEPT !.pos = @ + 1, !.auth = IF code = C334 THEN 2 ELSE 0]
    [] kind = "PASS" -> [s EXCEPT !.pos = @ + 1, !.auth = IF code = C235 THEN 3 ELSE 0]
    [] kind = "MAIL" -> [s EXCEPT !.pos = @ + 1, !.mail = (code = C250)]
    [] kind = "RCPT" -> [s EXCEPT !.pos = @ + 1,
                                  !.rcpt = IF code = C250 THEN @ + 1 ELSE @]
    [] kind = "DATA" -> [s EXCEPT !.pos = @ + 1, !.data = (code = C354)]
    [] kind = "PAYLOAD" -> [s EXCEPT !.pos = @ + 1, !.data = FALSE]
    [] kind = "QUIT" -> [s EXCEPT !.pos = @ + 1, !.quit = TRUE]
    [] OTHER -> [s EXCEPT !.pos = @ + 1]

\* what the server sends when it has accepted a connection
GreetingBytes(shape) ==
  CASE shape = "accept" -> Line(C220, SP)
    [] shape = "multi" -> Line(C220, HY) \o Line(C220, SP)
    [] shape = "reject" -> Line(C554, SP)

Shapes == {"accept", "multi", "reject"}

\* ------------------------------------------------------------------- state
VARIABLES
  creds,           \* options.user and options.password are both set
  initialized,     \* EmailService.initialized
  isInitialized,   \* the provider's isInitialized
  calls,           \* sendEmail calls started so far
  via,             \* "service": EmailService.sendEmail, "provider": provider.sendEmail
  emailOpts,       \* the argument of the call in progress
  pc,              \* where the call in progress stands
  ctx,             \* who awaits provider.initialize(): "svc" or "prov"
  step,            \* index in sendEmailCommands of the command being sent
  responseBuffer,  \* responseBuffer of the sendSmtpCommand in progress
  listener,        \* the 'data' listener on the socket: none, greeting, cmd
  txSock,          \* socket of createSmtpConnection: none, open, ended, closed
  probeSock,       \* socket of isPortAvailable: none, connecting, ended, closed
  inflight,        \* tagged bytes sent by the server, not yet read
  peerFin,         \* the server has closed its side of the connection
  srv,             \* the server's view of the conversation
  written,         \* the commands written to the socket in this call
  replied,         \* the server's final code for each command it answered
  error,           \* the error caught by the inner catch of sendEmail
  result,          \* what the call returned
  hist,            \* observations of this call that the claims are about
  rt,              \* a call of retry(fn, retries, delay) and what it has done
  cs,              \* overlapping sendEmail calls on one provider: the calls
                   \* and the sockets they created
  sv,              \* the calls made on an EmailService and on its provider,
                   \* and what each did about initialization
  mm,              \* a call of buildMimeMessage: its options and what it
                   \* returned
  rq,              \* a call of makeRequest: the request, its response and
                   \* the promise it returned
  pl               \* the connection pool of a provider created with
                   \* pool: true, and the sends that asked it for a connection

\* what the one-call-at-a-time steps of sendEmail leave alone
utilVars == <<rt, cs, sv, mm, rq, pl>>

vars ==
  <<creds, initialized, isInitialized, calls, via, emailOpts, pc, ctx, step,
    responseBuffer, listener, txSock, probeSock, inflight, peerFin, srv,
    written, replied, error, result, hist, utilVars>>

\* buildMimeMessage has not been called
MimeIdle == [built |-> FALSE, opts |-> <<>>, message |-> <<>>]

\* makeRequest has not been called
RequestIdle ==
  [at |-> "idle", url |-> "none", timeout |-> 0, data |-> FALSE,
   res |-> "none", chunks |-> <<>>, events |-> <<>>, resolves |-> 0,
   promise |-> [state |-> "none"]]

\* no provider with a pool has been created
PoolIdle ==
  [maxConnections |-> 0, conns |-> {}, idle |-> {}, owner |-> <<>>,
   waiters |-> <<>>, waited |-> <<>>, served |-> <<>>, asked |-> 0,
   closed |-> <<>>, made |-> 0]

\* no call has been made on the service or on the provider; option: the
\* provider option the service was constructed with, provider: this.provider,
\* built: the provider instances the service has made
ServiceIdle ==
  [ops |-> <<>>, succeeded |-> FALSE, option |-> "none", hasValidate |-> FALSE,
   provider |-> "none", built |-> 0]

\* no overlapping call has been made and no socket created
ConcIdle == [sends |-> <<>>, socks |-> <<>>]

\* retry has not been called
RetryIdle ==
  [at |-> "idle", n |-> 0, d |-> 0, retries |-> 0, delay |-> 0, invocations |-> 0,
   outcomes |-> <<>>, waits |-> <<>>, success |-> FALSE, from |-> 0,
   error |-> "none", configured |-> <<>>]

NoError == [kind |-> "", cmd |-> 0, code |-> <<>>]
Err(kind, cmd, code) == [kind |-> kind, cmd |-> cmd, code |-> code]

NoResult == [status |-> "none", layer |-> "", cause |-> NoError, data |-> ""]

\* txOpens, txCloses, probeOpens: sockets created and released by the call;
\* early: a command was settled on a buffer that held bytes of its own reply
\* only and no terminal reply line;
\* misread: a command was settled on a line the server sent in answer to
\* another command;
\* listeners: the 'data' listeners attached to the socket of
\* createSmtpConnection; settles: how often the promise of the
\* sendSmtpCommand in progress was resolved or rejected;
\* crossed: the listener of a command was given bytes the server sent in
\* answer to something else; lost: bytes of the reply to a command of
\* sendSmtpCommand were delivered while no listener was attached
HistInit ==
  [txOpens |-> 0, txCloses |-> 0, probeOpens |-> 0, early |-> FALSE,
   misread |-> FALSE, listeners |-> 0, settles |-> 0, crossed |-> FALSE,
   lost |-> FALSE]

WaitPcs == {"wait_probe", "wait_greeting", "wait_reply", "wait_close"}

\* the event loop is between callbacks: nothing of the call is runnable
Quiescent == pc \in WaitPcs \cup {"idle"}

Init ==
  /\ creds \in BOOLEAN
  /\ initialized = FALSE
  /\ isInitialized = FALSE
  /\ calls = 0
  /\ via = "none"
  /\ emailOpts = NoOptions
  /\ pc = "idle"
  /\ ctx = "none"
  /\ step = 0
  /\ responseBuffer = <<>>
  /\ listener = "none"
  /\ txSock = "none"
  /\ probeSock = "none"
  /\ inflight = <<>>
  /\ peerFin = FALSE
  /\ srv = ServerInit
  /\ written = <<>>
  /\ replied = <<>>
  /\ error = NoError
  /\ result = NoResult
  /\ hist = HistInit
  /\ rt = RetryIdle
  /\ cs = ConcIdle
  /\ sv = ServiceIdle
  /\ mm = MimeIdle
  /\ rq = RequestIdle
  /\ pl = PoolIdle

\* ------------------------------------------------------------- the results
\* return { success: false, error: createError(PROVIDER_NAME, 'Invalid email options: ...') }
validationResult(errors) ==
  [status |-> "fail", layer |-> "mailcrab", cause |-> Err("validation", 0, <<>>),
   data |-> ""]

\* the outer catch rethrows instead of returning
providerRethrow(err) ==
  [status |-> "threw", layer |-> "mailcrab", cause |-> err, data |-> ""]

\* the outer catch of the provider's sendEmail
providerCatch(err) ==
  [status |-> "fail", layer |-> "mailcrab", cause |-> err, data |-> ""]

\* the catch of EmailService.sendEmail
serviceCatch(err) ==
  [status |-> "fail", layer |-> "core", cause |-> err, data |-> ""]

\* a validateCredentials that returns true whatever happened
validateReturnTrue(r) ==
  [status |-> "true", layer |-> "mailcrab", cause |-> r.cause, data |-> ""]

\* validateCredentials returns true after the closeConnection of its try
\* block and false from its catch blocks
validateReturn(r) ==
  [status |-> IF r.status = "ok" THEN "true" ELSE "false", layer |-> "mailcrab",
   cause |-> r.cause, data |-> ""]

\* what the caller receives: EmailService.sendEmail returns the provider's
\* Result as it is and turns a rejection of the provider into a Result; the
\* provider's validateCredentials returns a boolean
serviceReturn(v, r) ==
  IF v = "validate" THEN validateReturn(r)
  ELSE IF v = "service" /\ r.status = "threw" THEN serviceCatch(r.cause) ELSE r

\* return { success: true, data: { messageId, sent: true, ... } }
successResult ==
  [status |-> "ok", layer |-> "mailcrab", cause |-> NoError, data |-> "messageId"]

\* a destroy that leaves the handle as it is
destroyNot(sock) == sock

\* socket.destroy(): releases the handle unless it is released already
destroy(sock) == IF sock = "none" THEN "none" ELSE "closed"

Released(before, after) == IF before # "closed" /\ after = "closed" THEN 1 ELSE 0

\* ----------------------------------------------------------------- actions
\* a caller starts sendEmail on the service or on the provider
Call(v, o) ==
  /\ pc = "idle"
  /\ calls < MaxCalls
  /\ calls' = calls + 1
  /\ via' = v
  /\ emailOpts' = o
  /\ pc' = IF v = "service" THEN "svc_sendEmail" ELSE "prov_sendEmail"
  /\ ctx' = "none"
  /\ step' = 0
  /\ responseBuffer' = <<>>
  /\ listener' = "none"
  /\ txSock' = "none"
  /\ inflight' = <<>>
  /\ peerFin' = FALSE
  /\ srv' = ServerInit
  /\ written' = <<>>
  /\ replied' = <<>>
  /\ error' = NoError
  /\ result' = NoResult
  /\ hist' = HistInit
  /\ UNCHANGED <<utilVars, creds, initialized, isInitialized, probeSock>>

\* isPortAvailable up to socket.connect; the caller awaits its promise
OpenProbe(who) ==
  /\ probeSock' = "connecting"
  /\ hist' = [hist EXCEPT !.probeOpens = @ + 1]
  /\ ctx' = who
  /\ pc' = "wait_probe"

\* EmailService.sendEmail down to the first await that suspends
SvcSendEmail ==
  /\ pc = "svc_sendEmail"
  /\ IF initialized
     THEN /\ pc' = "prov_sendEmail"
          /\ UNCHANGED <<initialized, probeSock, hist, ctx>>
     ELSE IF isInitialized
          THEN /\ initialized' = TRUE
               /\ pc' = "prov_sendEmail"
               /\ UNCHANGED <<probeSock, hist, ctx>>
          ELSE /\ OpenProbe("svc")
               /\ UNCHANGED initialized
  /\ UNCHANGED <<utilVars, creds, isInitialized, calls, via, emailOpts, step, responseBuffer,
                 listener, txSock, inflight, peerFin, srv, written, replied,
                 error, result>>

\* the provider's sendEmail down to its first await that suspends
ProvSendEmail ==
  /\ pc = "prov_sendEmail"
  /\ LET validationErrors == validateEmailOptions(emailOpts)
     IN IF Len(validationErrors) > 0
        THEN /\ result' = serviceReturn(via, validationResult(validationErrors))
             /\ pc' = "idle"
             /\ UNCHANGED <<probeSock, hist, ctx>>
        ELSE IF ~isInitialized
             THEN /\ OpenProbe("prov")
                  /\ UNCHANGED result
             ELSE /\ pc' = "connect"
                  /\ UNCHANGED <<probeSock, hist, ctx, result>>
  /\ UNCHANGED <<utilVars, creds, initialized, isInitialized, calls, via, emailOpts, step,
                 responseBuffer, listener, txSock, inflight, peerFin, srv,
                 written, replied, error>>

\* the connect callback of isPortAvailable: socket.end(); resolve(true).
\* The server greets the connection it accepted; nothing reads the greeting.
ProbeConnect(shape) ==
  /\ pc = "wait_probe"
  /\ probeSock = "connecting"
  /\ probeSock' = "ended"
  /\ srv' = [srv EXCEPT !.probe = substring(GreetingBytes(shape), 0, 3)]
  /\ isInitialized' = TRUE
  /\ IF ctx = "svc"
     THEN initialized' = TRUE /\ pc' = "prov_sendEmail"
     ELSE UNCHANGED initialized /\ pc' = "connect"
  /\ UNCHANGED <<utilVars, creds, calls, via, emailOpts, ctx, step, responseBuffer, listener,
                 txSock, inflight, peerFin, written, replied, error, result,
                 hist>>

\* onError of isPortAvailable ('error' or the 1000 ms 'timeout'):
\* socket.destroy(); resolve(false), which makes initialize throw
ProbeOnError ==
  /\ Quiescent
  /\ probeSock \in {"connecting", "ended"}
  /\ probeSock' = destroy(probeSock)
  /\ IF pc = "wait_probe"
     THEN /\ pc' = "idle"
          /\ result' = IF ctx = "svc"
                        THEN serviceCatch(Err("init", 0, <<>>))
                        ELSE serviceReturn(via, providerCatch(Err("init", 0, <<>>)))
     ELSE UNCHANGED <<pc, result>>
  /\ UNCHANGED <<utilVars, creds, initialized, isInitialized, calls, via, emailOpts, ctx, step,
                 responseBuffer, listener, txSock, inflight, peerFin, srv,
                 written, replied, error, hist>>

\* createSmtpConnection: the socket with its timeout, error and
\* once('data') handlers
CreateSmtpConnection ==
  /\ pc = "connect"
  /\ txSock' = "open"
  /\ listener' = "greeting"
  /\ hist' = [hist EXCEPT !.txOpens = @ + 1, !.listeners = @ + 1]
  /\ srv' = ServerInit
  /\ pc' = "wait_greeting"
  /\ UNCHANGED <<utilVars, creds, initialized, isInitialized, calls, via, emailOpts, ctx, step,
                 responseBuffer, probeSock, inflight, peerFin, written,
                 replied, error, result>>

\* the variables no event on the transaction socket touches
callVars ==
  <<creds, initialized, isInitialized, calls, via, emailOpts, ctx, probeSock,
    utilVars>>

\* the sendSmtpCommand calls of validateCredentials, in program order
validateCommands(hasCreds) == <<Cmd("EHLO", <<>>)>> \o authenticate(hasCreds)

commands ==
  IF via = "validate" THEN validateCommands(creds)
  ELSE sendEmailCommands(creds, emailOpts)

\* a complete line whose 4th character is a space
hasTerminalLine(chars) ==
  LET lines == split(chars)
  IN \E i \in 1..(Len(lines) - 1) : Len(lines[i]) >= 4 /\ lines[i][4] = SP

\* index in the buffer of the first character of the line onData looks at
lastLineStart(chars) ==
  LET lines == split(chars)
  IN Len(chars) - Len(lines[Len(lines)]) - 2 - Len(lines[Len(lines) - 1]) + 1

settled(buf) ==
  LET chars == Chars(buf)
      from == lastLineStart(chars)
  IN [hist EXCEPT
        !.early = @ \/ (/\ ~hasTerminalLine(chars)
                        /\ \A i \in 1..Len(buf) : buf[i][2] = step),
        !.misread = @ \/ \E i \in from..(from + 2) : buf[i][2] \notin {0, step},
        !.listeners = @ - 1,
        !.settles = @ + 1,
        !.crossed = @ \/ \E i \in 1..Len(buf) : buf[i][2] # step]

\* the socket.once('data') handler of createSmtpConnection
GreetingData(chunk, rest) ==
  LET greeting == Chars(chunk)
      code == substring(greeting, 0, 3)
  IN /\ listener' = "none"
     /\ IF code = C220
        THEN /\ step' = 1
             /\ pc' = "send"
             /\ inflight' = rest
             /\ hist' = [hist EXCEPT !.listeners = @ - 1]
             /\ UNCHANGED <<txSock, result>>
        ELSE /\ txSock' = destroy(txSock)
             /\ hist' = [hist EXCEPT !.txCloses = @ + Released(txSock, destroy(txSock)),
                                     !.listeners = @ - 1]
             /\ inflight' = <<>>
             /\ result' = serviceReturn(via, providerCatch(Err("greeting", 0, code)))
             /\ pc' = "idle"
             /\ UNCHANGED step
     /\ UNCHANGED <<responseBuffer, error>>

\* the onData listener of sendSmtpCommand
CommandData(chunk, rest) ==
  LET buf == responseBuffer \o chunk
      verdict == onData(Chars(buf), expectedCodes(commands[step].kind))
  IN /\ inflight' = rest
     /\ CASE verdict = "wait" ->
               /\ responseBuffer' = buf
               /\ UNCHANGED <<listener, step, pc, error, hist>>
          [] verdict = "resolve" ->
               /\ responseBuffer' = <<>>
               /\ listener' = "none"
               /\ hist' = settled(buf)
               /\ IF step < Len(commands)
                  THEN step' = step + 1 /\ pc' = "send"
                  ELSE pc' = "close" /\ UNCHANGED step
               /\ UNCHANGED error
          [] verdict = "reject" ->
               /\ responseBuffer' = <<>>
               /\ listener' = "none"
               /\ hist' = settled(buf)
               /\ error' = Err("reply", step, substring(lastLineOf(Chars(buf)), 0, 3))
               /\ pc' = "close"
               /\ UNCHANGED step
     /\ UNCHANGED <<txSock, result>>

\* a 'data' event on the transaction socket delivers the next n bytes
TxData(n) ==
  /\ pc \in {"wait_greeting", "wait_reply", "wait_close"}
  /\ txSock \in {"open", "ended"}
  /\ n \in 1..Len(inflight)
  /\ LET chunk == SubSeq(inflight, 1, n)
         rest == SubSeq(inflight, n + 1, Len(inflight))
     IN CASE listener = "greeting" -> GreetingData(chunk, rest)
          [] listener = "cmd" -> CommandData(chunk, rest)
          [] OTHER -> /\ inflight' = rest
                      /\ hist' = [hist EXCEPT !.lost = @ \/ \E i \in 1..Len(chunk) :
                                     /\ chunk[i][2] >= 1
                                     /\ written[chunk[i][2]].kind # "QUIT"]
                      /\ UNCHANGED <<listener, step, pc, responseBuffer, error,
                                     txSock, result>>
  /\ UNCHANGED <<callVars, peerFin, srv, written, replied>>

\* a sendSmtpCommand that writes its command a second time
SendSmtpCommandTwice ==
  /\ pc = "send"
  /\ listener' = "cmd"
  /\ responseBuffer' = <<>>
  /\ written' = IF txSock = "open"
                THEN written \o << commandText(commands[step], emailOpts),
                                   commandText(commands[step], emailOpts) >>
                ELSE written
  /\ pc' = "wait_reply"
  /\ hist' = [hist EXCEPT !.listeners = @ + 1, !.settles = 0]
  /\ UNCHANGED <<callVars, step, txSock, inflight, peerFin, srv, replied, error,
                 result>>

\* sendSmtpCommand: socket.on('data', onData); socket.write(command)
SendSmtpCommand ==
  /\ pc = "send"
  /\ listener' = "cmd"
  /\ responseBuffer' = <<>>
  /\ written' = IF txSock = "open"
                THEN Append(written, commandText(commands[step], emailOpts))
                ELSE written
  /\ pc' = "wait_reply"
  /\ hist' = [hist EXCEPT !.listeners = @ + 1, !.settles = 0]
  /\ UNCHANGED <<callVars, step, txSock, inflight, peerFin, srv, replied, error,
                 result>>

\* closeConnection: socket.write('QUIT'); socket.end(); socket.once('close', resolve)
CloseConnection ==
  /\ pc = "close"
  /\ written' = IF txSock = "open" THEN Append(written, Cmd("QUIT", <<>>)) ELSE written
  /\ txSock' = IF txSock = "open" THEN "ended" ELSE txSock
  /\ pc' = "wait_close"
  /\ UNCHANGED <<callVars, step, responseBuffer, listener, inflight, peerFin, srv,
                 replied, error, result, hist>>

\* the socket emitted 'close'; rejected is the error its handler passed to
\* reject(), NoError when no handler ran
AfterClose(rejected) ==
  /\ txSock' = destroy(txSock)
  /\ hist' = [hist EXCEPT !.txCloses = @ + Released(txSock, destroy(txSock))]
  /\ inflight' = <<>>
  /\ CASE pc = "wait_greeting" /\ rejected # NoError ->
            /\ result' = serviceReturn(via, providerCatch(rejected))
            /\ pc' = "idle"
       [] pc = "wait_close" ->
            /\ result' = serviceReturn(via, IF error = NoError THEN successResult
                                             ELSE providerCatch(error))
            /\ pc' = "idle"
       [] OTHER -> UNCHANGED <<pc, result>>
  /\ UNCHANGED <<callVars, step, responseBuffer, listener, peerFin, srv, written,
                 replied, error>>

TxWaiting ==
  /\ pc \in {"wait_greeting", "wait_reply", "wait_close"}
  /\ txSock \in {"open", "ended"}

\* socket.on('timeout'): socket.destroy(); reject(...)
TxTimeout ==
  /\ TxWaiting
  /\ AfterClose(Err("timeout", 0, <<>>))

\* socket.on('error'): reject(...); node has destroyed the socket
TxError ==
  /\ TxWaiting
  /\ AfterClose(Err("connection", 0, <<>>))

\* the peer's FIN is read after its last byte: 'end', then 'close'
TxPeerEnd ==
  /\ TxWaiting
  /\ peerFin
  /\ inflight = <<>>
  /\ AfterClose(NoError)

\* ------------------------------------------------------- the server's moves
\* the server accepted the connection and greets
ServerGreet(shape) ==
  /\ pc = "wait_greeting"
  /\ txSock = "open"
  /\ ~srv.greeted
  /\ ~peerFin
  /\ srv' = [srv EXCEPT !.greeted = TRUE]
  /\ inflight' = inflight \o Tagged(GreetingBytes(shape), 0)
  /\ UNCHANGED <<callVars, pc, step, responseBuffer, listener, txSock, peerFin,
                 written, replied, error, result, hist>>

\* the server answers the next command it has received
ServerReply(shape) ==
  /\ TxWaiting
  /\ srv.greeted
  /\ ~peerFin
  /\ srv.pos < Len(written)
  /\ LET k == srv.pos + 1
         kind == written[k].kind
         code == ServerCode(kind, srv, shape # "reject")
         bytes == IF shape = "multi" THEN Line(code, HY) \o Line(code, SP)
                  ELSE Line(code, SP)
     IN /\ shape = "multi" => kind = "EHLO" /\ code = C250
        /\ srv' = ServerAfter(kind, srv, code)
        /\ inflight' = inflight \o Tagged(bytes, k)
        /\ replied' = Append(replied, code)
        /\ peerFin' = (kind = "QUIT")
  /\ UNCHANGED <<callVars, pc, step, responseBuffer, listener, txSock, written,
                 error, result, hist>>

\* the server closes the connection: after our FIN, or on its own
ServerEnd ==
  /\ TxWaiting
  /\ ~peerFin
  /\ inflight = <<>>
  /\ peerFin' = TRUE
  /\ UNCHANGED <<callVars, pc, step, responseBuffer, listener, txSock, inflight,
                 srv, written, replied, error, result, hist>>

Next ==
  \/ \E v \in {"service", "provider"} : \E o \in EmailOptionsPool : Call(v, o)
  \/ SvcSendEmail
  \/ ProvSendEmail
  \/ \E shape \in Shapes : ProbeConnect(shape)
  \/ ProbeOnError
  \/ CreateSmtpConnection
  \/ \E n \in 1..Len(inflight) : TxData(n)
  \/ SendSmtpCommand
  \/ CloseConnection
  \/ TxTimeout
  \/ TxError
  \/ TxPeerEnd
  \/ \E shape \in Shapes : ServerGreet(shape)
  \/ \E shape \in Shapes : ServerReply(shape)
  \/ ServerEnd

Spec == Init /\ [][Next]_vars

\* timers fire and the event loop runs every callback that is due
FairSpec == Spec /\ WF_vars(Next)

\* ------------------------------------------------- validateCredentials
\* a caller calls the provider's validateCredentials: it runs down to the
\* isPortAvailable of `await this.isAvailable()`
ValidateCredentials ==
  /\ pc = "idle"
  /\ calls < MaxCalls
  /\ calls' = calls + 1
  /\ via' = "validate"
  /\ emailOpts' = NoOptions
  /\ step' = 0
  /\ responseBuffer' = <<>>
  /\ listener' = "none"
  /\ txSock' = "none"
  /\ inflight' = <<>>
  /\ peerFin' = FALSE
  /\ srv' = ServerInit
  /\ written' = <<>>
  /\ replied' = <<>>
  /\ error' = NoError
  /\ result' = NoResult
  /\ probeSock' = "connecting"
  /\ hist' = [HistInit EXCEPT !.probeOpens = 1]
  /\ ctx' = "validate"
  /\ pc' = "wait_probe"
  /\ UNCHANGED <<utilVars, creds, initialized, isInitialized>>

\* the connect callback of isPortAvailable: socket.end(); resolve(true).
\* Without user and password validateCredentials returns true; with them it
\* goes on to createSmtpConnection
ValidateAvailable(shape) ==
  /\ pc = "wait_probe"
  /\ ctx = "validate"
  /\ probeSock = "connecting"
  /\ probeSock' = "ended"
  /\ srv' = [srv EXCEPT !.probe = substring(GreetingBytes(shape), 0, 3)]
  /\ IF ~creds
     THEN /\ result' = validateReturn(successResult)
          /\ pc' = "idle"
     ELSE /\ pc' = "connect"
          /\ UNCHANGED result
  /\ UNCHANGED <<utilVars, creds, initialized, isInitialized, calls, via, emailOpts, ctx,
                 step, responseBuffer, listener, txSock, inflight, peerFin,
                 written, replied, error, hist>>

ValidateNext ==
  \/ ValidateCredentials
  \/ \E shape \in Shapes : ValidateAvailable(shape)
  \/ ProbeOnError
  \/ CreateSmtpConnection
  \/ \E n \in 1..Len(inflight) : TxData(n)
  \/ SendSmtpCommand
  \/ CloseConnection
  \/ TxTimeout
  \/ TxError
  \/ TxPeerEnd
  \/ \E shape \in Shapes : ServerGreet(shape)
  \/ \E shape \in Shapes : ServerReply(shape)
  \/ ServerEnd

ValidateSpec == Init /\ [][ValidateNext]_vars

\* ------------------------------------------------------------------- retry
MaxRetries == 3    \* largest `retries` argument a caller passes

\* the `delay` arguments callers pass, in ms
Delays == {10, 300}

mainVars ==
  <<creds, initialized, isInitialized, calls, via, emailOpts, pc, ctx, step,
    responseBuffer, listener, txSock, probeSock, inflight, peerFin, srv,
    written, replied, error, result, hist>>

\* the `retries` arguments callers pass: no check keeps them from being
\* negative
Retries == -1..MaxRetries

\* how `await fn()` can settle: fn resolves a Result with success true ("ok")
\* or false ("fail"), or it rejects with an Error ("throw") or with a value
\* that is not an Error ("throwValue")
Outcomes == {"ok", "fail", "throw", "throwValue"}

\* the error of the Result retry returns after the outcome of its last
\* invocation: the Result of fn as it is, the Error fn threw, or
\* new Error(String(error))
returnedError(outcome) ==
  CASE outcome = "ok" -> "none"
    [] outcome = "fail" -> "of result"
    [] outcome = "throw" -> "thrown"
    [] outcome = "throwValue" -> "wrapped"

\* a caller calls retry(fn, n, d)
RetryCall(n, d) ==
  /\ rt.at = "idle"
  /\ rt' = [RetryIdle EXCEPT !.at = "fn", !.n = n, !.d = d, !.retries = n, !.delay = d]
  /\ UNCHANGED <<mainVars, cs, sv, mm, rq, pl>>

\* a success of fn does not end the retries
RetryInvokeOn(outcome) ==
  /\ rt.at = "fn"
  /\ LET k == rt.invocations + 1
         seen == [rt EXCEPT !.invocations = k, !.outcomes = Append(@, outcome)]
     IN rt' = IF rt.retries <= 0
              THEN [seen EXCEPT !.at = "done", !.success = (outcome = "ok"),
                                !.from = k, !.error = returnedError(outcome)]
              ELSE [seen EXCEPT !.at = "sleep", !.waits = Append(@, rt.delay)]
  /\ UNCHANGED <<mainVars, cs, sv, mm, rq, pl>>

\* the catch block throws what it caught when no retry is left
RetryInvokeRethrow(outcome) ==
  /\ rt.at = "fn"
  /\ LET k == rt.invocations + 1
         seen == [rt EXCEPT !.invocations = k, !.outcomes = Append(@, outcome)]
     IN rt' = IF outcome = "ok" \/ rt.retries <= 0
              THEN IF outcome \in {"throw", "throwValue"}
                   THEN [seen EXCEPT !.at = "rejected"]
                   ELSE [seen EXCEPT !.at = "done", !.success = (outcome = "ok"),
                                     !.from = k, !.error = returnedError(outcome)]
              ELSE [seen EXCEPT !.at = "sleep", !.waits = Append(@, rt.delay)]
  /\ UNCHANGED <<mainVars, cs, sv, mm, rq, pl>>

\* `await fn()` settles.  In the try block the Result is returned when it is
\* a success or no retry is left; in the catch block a failure Result with
\* the error is returned when no retry is left; otherwise retry sleeps for
\* `delay`.
RetryInvoke(outcome) ==
  /\ rt.at = "fn"
  /\ LET k == rt.invocations + 1
         seen == [rt EXCEPT !.invocations = k, !.outcomes = Append(@, outcome)]
     IN rt' = IF outcome = "ok" \/ rt.retries <= 0
              THEN [seen EXCEPT !.at = "done", !.success = (outcome = "ok"),
                                !.from = k, !.error = returnedError(outcome)]
              ELSE [seen EXCEPT !.at = "sleep", !.waits = Append(@, rt.delay)]
  /\ UNCHANGED <<mainVars, cs, sv, mm, rq, pl>>

\* the timer of the sleep fires and the recursive call is made with the
\* arguments of the call before it
RetryWakeKeep ==
  /\ rt.at = "sleep"
  /\ rt' = [rt EXCEPT !.at = "fn"]
  /\ UNCHANGED <<mainVars, cs, sv, mm, rq, pl>>

\* the recursive call is made with the delay of the call before it
RetryWakeSameDelay ==
  /\ rt.at = "sleep"
  /\ rt' = [rt EXCEPT !.at = "fn", !.retries = @ - 1]
  /\ UNCHANGED <<mainVars, cs, sv, mm, rq, pl>>

\* the timer of the sleep fires: return retry(fn, retries - 1, delay * 2)
RetryWake ==
  /\ rt.at = "sleep"
  /\ rt' = [rt EXCEPT !.at = "fn", !.retries = @ - 1, !.delay = @ * 2]
  /\ UNCHANGED <<mainVars, cs, sv, mm, rq, pl>>

RetryNext ==
  \/ \E n \in Retries : \E d \in Delays : RetryCall(n, d)
  \/ \E outcome \in Outcomes : RetryInvoke(outcome)
  \/ RetryWake

RetrySpec == Init /\ [][RetryNext]_vars

\* fn settles, and a timer that was set fires
RetryFairSpec ==
  /\ RetrySpec
  /\ WF_vars(\E outcome \in Outcomes : RetryInvoke(outcome))
  /\ WF_vars(RetryWake)

\* ------------------------------------------- the Resend provider's sendEmail
DEFAULT_RETRIES == 3

\* retries: opts.retries || DEFAULT_RETRIES, for a configuration that gives
\* no retries (<<>>) or gives the number r (<<r>>)
resendRetries(retries) ==
  IF retries = <<>> \/ retries[1] = 0 THEN DEFAULT_RETRIES ELSE retries[1]

\* sendEmail of a provider made by resendProvider({apiKey, retries}), with
\* valid options and an API key that passes for available: it calls
\* retry(fn, options.retries), where each invocation of fn is one POST made
\* by makeRequest; the delay is retry's default
ResendSendEmail(retries) ==
  /\ rt.at = "idle"
  /\ rt' = [RetryIdle EXCEPT !.at = "fn", !.configured = retries,
                             !.n = resendRetries(retries), !.d = 300,
                             !.retries = resendRetries(retries), !.delay = 300]
  /\ UNCHANGED <<mainVars, cs, sv, mm, rq, pl>>

\* the POST settles (makeRequest resolves a Result or rejects), and the
\* timer of a sleep fires
ResendNext ==
  \/ \E retries \in {<<>>} \cup {<<r>> : r \in 0..MaxRetries} : ResendSendEmail(retries)
  \/ \E outcome \in Outcomes : RetryInvoke(outcome)
  \/ RetryWake

ResendSpec == Init /\ [][ResendNext]_vars

\* -------------------------------------------------------- overlapping calls
\* Several sendEmail calls are in progress on one provider.  A call holds
\* what its closures hold: emailOpts, the socket createSmtpConnection
\* returned to it, the responseBuffer of its sendSmtpCommand.  A socket holds
\* what the server received and sent on it.  A call's 'data' listener is on
\* the socket the call holds.  The server answers every command; each
\* 'data' event carries one reply line.
MaxSends == 2      \* sendEmail calls in progress at the same time

Senders == 1..MaxSends

\* the options of the p-th call: the calls differ in sender and recipient
ConcOptions(p) ==
  IF p % 2 = 1 THEN BaseOptions
  ELSE [BaseOptions EXCEPT !.from = One(AddrB), !.to = One(AddrB)]

\* sendEmail has been called
NewSend(o) ==
  [at |-> "sendEmail", opts |-> o, sock |-> 0, step |-> 0, responseBuffer |-> <<>>,
   written |-> <<>>, out |-> "none", result |-> "none"]

\* the socket of a call that has not reached net.createConnection
NoSocket ==
  [made |-> FALSE, open |-> FALSE, out |-> <<>>, inbox |-> <<>>, delivered |-> <<>>,
   srv |-> ServerInit]

\* net.createConnection: a connected socket on which nothing has happened
FreshSocket == [NoSocket EXCEPT !.made = TRUE, !.open = TRUE]

\* every call gets the socket of the first call
newSocketPooled(p) == 1

\* the socket createSmtpConnection of call p creates: its own, which is
\* named by the call that created it
newSocket(p) == p

concVars ==
  <<creds, initialized, calls, via, emailOpts, pc, ctx, step, responseBuffer,
    listener, txSock, probeSock, inflight, peerFin, srv, written, replied,
    error, result, hist, rt, sv, mm, rq, pl>>

\* createSmtpConnection of call p: the socket, with the once('data')
\* listener of the greeting
connect(c, p) ==
  LET k == newSocket(p)
  IN [sends |-> [c.sends EXCEPT ![p].sock = k, ![p].at = "wait_greeting"],
      socks |-> IF c.socks[k].made THEN c.socks ELSE [c.socks EXCEPT ![k] = FreshSocket]]

\* a caller calls sendEmail while other calls are in progress; the call runs
\* to its first await that suspends: initialize, or the greeting
ConcSendEmail ==
  /\ Len(cs.sends) < MaxSends
  /\ LET p == Len(cs.sends) + 1
         o == ConcOptions(p)
         called == [sends |-> Append(cs.sends, NewSend(o)),
                    socks |-> Append(cs.socks, NoSocket)]
     IN cs' = IF Len(validateEmailOptions(o)) > 0
              THEN [called EXCEPT !.sends[p].at = "done", !.sends[p].result = "fail"]
              ELSE IF ~isInitialized
              THEN [called EXCEPT !.sends[p].at = "wait_probe"]
              ELSE connect(called, p)
  /\ UNCHANGED <<concVars, isInitialized>>

\* isPortAvailable of call p resolves: initialize sets isInitialized and
\* sendEmail goes on to createSmtpConnection, or initialize throws
ConcProbe(p, available) ==
  /\ p \in 1..Len(cs.sends)
  /\ cs.sends[p].at = "wait_probe"
  /\ isInitialized' = (isInitialized \/ available)
  /\ cs' = IF available
           THEN connect(cs, p)
           ELSE [cs EXCEPT !.sends[p].at = "done", !.sends[p].result = "fail"]
  /\ UNCHANGED concVars

\* what a 'data' event does to the call whose listener receives it: the
\* greeting handler of createSmtpConnection, or onData of sendSmtpCommand
\* followed by the next sendSmtpCommand or by closeConnection
afterData(s, chunk) ==
  LET cmds == sendEmailCommands(creds, s.opts)
      quit == Cmd("QUIT", <<>>)
  IN IF s.at = "wait_greeting"
     THEN IF substring(chunk, 0, 3) = C220
          THEN [s EXCEPT !.at = "wait_reply", !.step = 1,
                         !.written = <<commandText(cmds[1], s.opts)>>]
          ELSE [s EXCEPT !.at = "done", !.out = "fail", !.result = "fail"]
     ELSE IF s.at = "wait_reply"
     THEN LET buf == s.responseBuffer \o chunk
              verdict == onData(buf, expectedCodes(cmds[s.step].kind))
          IN CASE verdict = "wait" -> [s EXCEPT !.responseBuffer = buf]
               [] verdict = "resolve" /\ s.step < Len(cmds) ->
                    [s EXCEPT !.responseBuffer = <<>>, !.step = @ + 1,
                              !.written = Append(@, commandText(cmds[s.step + 1], s.opts))]
               [] verdict = "resolve" /\ s.step >= Len(cmds) ->
                    [s EXCEPT !.responseBuffer = <<>>, !.at = "wait_close",
                              !.out = "ok", !.written = Append(@, quit)]
               [] verdict = "reject" ->
                    [s EXCEPT !.responseBuffer = <<>>, !.at = "wait_close",
                              !.out = "fail", !.written = Append(@, quit)]
     ELSE s

\* the calls whose 'data' listener is on socket k
listenersOn(sends, k) ==
  {p \in 1..Len(sends) : sends[p].sock = k /\ sends[p].at \in {"wait_greeting", "wait_reply"}}

\* what the calls p..Len(sends) wrote to socket k in this event, in order
RECURSIVE writesTo(_, _, _, _)
writesTo(before, after, k, p) ==
  IF p > Len(before) THEN <<>>
  ELSE (IF before[p].sock = k
        THEN SubSeq(after[p].written, Len(before[p].written) + 1, Len(after[p].written))
        ELSE <<>>)
       \o writesTo(before, after, k, p + 1)

\* socket k emits 'data' with the next reply line
ConcData(k) ==
  /\ k \in 1..Len(cs.socks)
  /\ cs.socks[k].open
  /\ cs.socks[k].inbox # <<>>
  /\ LET chunk == Head(cs.socks[k].inbox)
         hear == listenersOn(cs.sends, k)
         after == [p \in 1..Len(cs.sends) |->
                     IF p \in hear THEN afterData(cs.sends[p], chunk) ELSE cs.sends[p]]
         destroyed == \E p \in hear : after[p].at = "done"
     IN cs' = [sends |-> after,
               socks |-> [cs.socks EXCEPT
                            ![k].inbox = IF destroyed THEN <<>> ELSE Tail(@),
                            ![k].delivered = Append(@, chunk),
                            ![k].open = ~destroyed,
                            ![k].out = @ \o writesTo(cs.sends, after, k, 1)]]
  /\ UNCHANGED <<concVars, isInitialized>>

\* the server greets connection k or answers the next command it received
\* on it; nothing listens for its answer to QUIT
ConcServer(k, willing) ==
  /\ k \in 1..Len(cs.socks)
  /\ cs.socks[k].open
  /\ LET sk == cs.socks[k]
     IN IF ~sk.srv.greeted
        THEN cs' = [cs EXCEPT
                      !.socks[k].srv.greeted = TRUE,
                      !.socks[k].inbox =
                          Append(@, GreetingBytes(IF willing THEN "accept" ELSE "reject"))]
        ELSE /\ sk.srv.pos < Len(sk.out)
             /\ sk.out[sk.srv.pos + 1].kind # "QUIT"
             /\ LET kind == sk.out[sk.srv.pos + 1].kind
                    code == ServerCode(kind, sk.srv, willing)
                IN cs' = [cs EXCEPT
                            !.socks[k].srv = ServerAfter(kind, sk.srv, code),
                            !.socks[k].inbox = Append(@, Line(code, SP))]
  /\ UNCHANGED <<concVars, isInitialized>>

\* socket k emits 'close' after QUIT and socket.end(): closeConnection
\* resolves and sendEmail returns
ConcClose(k) ==
  /\ k \in 1..Len(cs.socks)
  /\ cs.socks[k].open
  /\ cs.socks[k].inbox = <<>>
  /\ \E p \in 1..Len(cs.sends) : cs.sends[p].sock = k /\ cs.sends[p].at = "wait_close"
  /\ cs' = [sends |-> [p \in 1..Len(cs.sends) |->
                         IF cs.sends[p].sock = k /\ cs.sends[p].at = "wait_close"
                         THEN [cs.sends[p] EXCEPT !.at = "done", !.result = cs.sends[p].out]
                         ELSE cs.sends[p]],
            socks |-> [cs.socks EXCEPT ![k].open = FALSE]]
  /\ UNCHANGED <<concVars, isInitialized>>

ConcNext ==
  \/ ConcSendEmail
  \/ \E p \in Senders : \E available \in BOOLEAN : ConcProbe(p, available)
  \/ \E k \in Senders : ConcData(k)
  \/ \E k \in Senders : \E willing \in BOOLEAN : ConcServer(k, willing)
  \/ \E k \in Senders : ConcClose(k)

ConcSpec == Init /\ [][ConcNext]_vars

\* ---------------------------------------------- the service and its calls
\* Calls on one EmailService and directly on its provider; a call may start
\* while others wait for I/O.  A call runs to its next await that waits for
\* I/O: the availability check inside provider.initialize, or the provider's
\* operation itself, whose exchange with the server is the subject of the
\* steps above and is one step here.
MaxOps == 3        \* calls made on the service and its provider

ServiceKinds == {"initialize", "sendEmail", "validateCredentials", "isAvailable"}
ProviderKinds == {"initialize", "sendEmail"}

\* provider.initialize is invoked on every call
callsInitializeAlways(on, kind, svcInit, provInit) ==
  kind # "isAvailable"

\* whether a call invokes provider.initialize: EmailService.initialize,
\* sendEmail and validateCredentials while the service is not initialized;
\* the provider's own sendEmail while the provider is not; a direct call
\* of provider.initialize
callsInitialize(on, kind, svcInit, provInit) ==
  IF on = "service"
  THEN kind \in {"initialize", "sendEmail", "validateCredentials"} /\ ~svcInit
  ELSE kind = "initialize" \/ (kind = "sendEmail" /\ ~provInit)

\* initialize goes on whatever isAvailable returned
initializeAnyway(available) == TRUE

\* provider.initialize after `await this.isAvailable()`: it throws unless
\* the provider is available
initializeSucceeds(available) == available

\* what a call returns when provider.initialize threw
initializeFailed(kind) ==
  CASE kind = "initialize" -> "rejected"
    [] kind = "sendEmail" -> "fail"
    [] kind = "validateCredentials" -> "false"

\* the call after initialization: EmailService.initialize returns, the others
\* start the provider's operation (sendEmail opens its connection or sends
\* its request)
afterInitialize(op) ==
  IF op.kind = "initialize"
  THEN [op EXCEPT !.at = "done", !.result = "resolved"]
  ELSE [op EXCEPT !.at = "operation", !.opened = (op.kind = "sendEmail")]

\* a call as it is made
NewOp(on, kind) ==
  [on |-> on, kind |-> kind, at |-> "called", inits |-> 0, checks |-> 0,
   avail |-> "none", pre |-> initialized, preProv |-> isInitialized,
   late |-> FALSE, opened |-> FALSE, result |-> "none"]

svcVars ==
  <<creds, calls, via, emailOpts, pc, ctx, step, responseBuffer, listener,
    txSock, probeSock, inflight, peerFin, srv, written, replied, error, result,
    hist, rt, cs, mm, rq, pl>>

\* a caller calls a method of the service or of the provider; the call runs
\* down to its first await for I/O
ServiceCall(on, kind) ==
  /\ Len(sv.ops) < MaxOps
  /\ LET op == NewOp(on, kind)
         invoked == [op EXCEPT !.inits = 1, !.late = sv.succeeded]
     IN IF ~callsInitialize(on, kind, initialized, isInitialized)
        THEN /\ sv' = [sv EXCEPT !.ops = Append(@, afterInitialize(op))]
             /\ UNCHANGED <<initialized, isInitialized>>
        ELSE IF isInitialized
        THEN /\ sv' = [sv EXCEPT !.ops = Append(@, afterInitialize(invoked)),
                                 !.succeeded = @ \/ on = "service"]
             /\ initialized' = (initialized \/ on = "service")
             /\ UNCHANGED isInitialized
        ELSE /\ sv' = [sv EXCEPT !.ops = Append(@, [invoked EXCEPT !.at = "initialize"])]
             /\ UNCHANGED <<initialized, isInitialized>>
  /\ UNCHANGED svcVars

\* `await this.isAvailable()` of the provider.initialize that call i invoked
\* settles
ServiceAvailable(i, available) ==
  /\ i \in 1..Len(sv.ops)
  /\ sv.ops[i].at = "initialize"
  /\ LET op == [sv.ops[i] EXCEPT !.checks = @ + 1,
                                 !.avail = IF available THEN "true" ELSE "false"]
     IN IF initializeSucceeds(available)
        THEN /\ isInitialized' = TRUE
             /\ initialized' = (initialized \/ op.on = "service")
             /\ sv' = [sv EXCEPT !.ops[i] = afterInitialize(op),
                                 !.succeeded = @ \/ op.on = "service"]
        ELSE /\ sv' = [sv EXCEPT !.ops[i] =
                         [op EXCEPT !.at = "done", !.result = initializeFailed(op.kind)]]
             /\ UNCHANGED <<initialized, isInitialized>>
  /\ UNCHANGED svcVars

\* the provider's operation of call i settles
ServiceOperation(i, ok) ==
  /\ i \in 1..Len(sv.ops)
  /\ sv.ops[i].at = "operation"
  /\ sv' = [sv EXCEPT !.ops[i].at = "done",
                      !.ops[i].result =
                         IF sv.ops[i].kind = "sendEmail"
                         THEN (IF ok THEN "ok" ELSE "fail")
                         ELSE (IF ok THEN "true" ELSE "false")]
  /\ UNCHANGED <<svcVars, initialized, isInitialized>>

ServiceNext ==
  \/ \E kind \in ServiceKinds : ServiceCall("service", kind)
  \/ \E kind \in ProviderKinds : ServiceCall("provider", kind)
  \/ \E i \in 1..MaxOps : \E available \in BOOLEAN : ServiceAvailable(i, available)
  \/ \E i \in 1..MaxOps : \E ok \in BOOLEAN : ServiceOperation(i, ok)

ServiceSpec == Init /\ [][ServiceNext]_vars

\* ------------------------------------------- the service and its provider
\* An EmailService as it is constructed: with a provider factory (or none,
\* which is the default factory), a factory that throws for its
\* configuration, a provider instance, the legacy {name} form, or something
\* else; the provider implements validateCredentials or does not.
ProviderOptions == {"factory", "throwing", "instance", "legacy", "invalid"}

\* a getProvider that builds a provider on every call
getProviderAnew(s) ==
  CASE s.option = "factory" ->
         [sv |-> [s EXCEPT !.provider = "built", !.built = @ + 1], threw |-> FALSE]
    [] s.option = "instance" ->
         [sv |-> [s EXCEPT !.provider = "given"], threw |-> FALSE]
    [] OTHER -> [sv |-> s, threw |-> TRUE]

\* getProvider: this.provider when it is set; otherwise the factory is
\* called or the instance taken, and what is thrown on the way is thrown on
\* as 'Failed to initialize provider'
getProvider(s) ==
  IF s.provider # "none" THEN [sv |-> s, threw |-> FALSE]
  ELSE CASE s.option = "factory" ->
              [sv |-> [s EXCEPT !.provider = "built", !.built = @ + 1], threw |-> FALSE]
         [] s.option = "instance" ->
              [sv |-> [s EXCEPT !.provider = "given"], threw |-> FALSE]
         [] OTHER -> [sv |-> s, threw |-> TRUE]

\* a catch block that throws on what it caught
caughtRethrow(kind) == "rejected"

\* what the catch block of a method makes of an error: initialize throws it
\* on, sendEmail returns a failure, isAvailable and validateCredentials
\* return false
caught(kind) ==
  CASE kind = "initialize" -> "rejected"
    [] kind = "sendEmail" -> "fail"
    [] OTHER -> "false"

\* a call on the service as it is made
NewFacadeOp(kind) ==
  [on |-> "service", kind |-> kind, at |-> "called", pre |-> initialized,
   inits |-> 0, initOk |-> FALSE, threw |-> FALSE, result |-> "none"]

failed(op) == [op EXCEPT !.at = "done", !.threw = TRUE, !.result = caught(op.kind)]

\* the call once the service is initialized (or, for isAvailable, at once):
\* initialize returns; the others get the provider and start its operation;
\* validateCredentials returns true when the provider has none
proceed(s, op) ==
  LET g == getProvider(s)
  IN IF op.kind = "initialize"
     THEN [sv |-> s, op |-> [op EXCEPT !.at = "done", !.result = "resolved"]]
     ELSE IF g.threw
     THEN [sv |-> g.sv, op |-> failed(op)]
     ELSE IF op.kind = "validateCredentials" /\ ~s.hasValidate
     THEN [sv |-> g.sv, op |-> [op EXCEPT !.at = "done", !.result = "true"]]
     ELSE [sv |-> g.sv, op |-> [op EXCEPT !.at = "operation"]]

\* new EmailService({provider, config})
FacadeCreate(option, hasValidate) ==
  /\ sv.option = "none"
  /\ sv.ops = <<>>
  /\ sv' = [sv EXCEPT !.option = option, !.hasValidate = hasValidate]
  /\ UNCHANGED <<svcVars, initialized, isInitialized>>

\* a caller calls a method of the service; the call runs down to its first
\* await for I/O.  initialize, and sendEmail and validateCredentials while
\* the service is not initialized, get the provider and call its initialize,
\* which returns at once when the provider is initialized and awaits its
\* isAvailable otherwise
FacadeCall(kind) ==
  /\ sv.option # "none"
  /\ Len(sv.ops) < MaxOps
  /\ LET op == NewFacadeOp(kind)
         g == getProvider(sv)
         invoked == [op EXCEPT !.inits = 1]
     IN IF kind = "isAvailable" \/ initialized
        THEN /\ sv' = [proceed(sv, op).sv EXCEPT !.ops = Append(@, proceed(sv, op).op)]
             /\ UNCHANGED <<initialized, isInitialized>>
        ELSE IF g.threw
        THEN /\ sv' = [g.sv EXCEPT !.ops = Append(@, failed(op))]
             /\ UNCHANGED <<initialized, isInitialized>>
        ELSE IF isInitialized
        THEN /\ initialized' = TRUE
             /\ sv' = LET p == proceed(g.sv, [invoked EXCEPT !.initOk = TRUE])
                      IN [p.sv EXCEPT !.ops = Append(@, p.op)]
             /\ UNCHANGED isInitialized
        ELSE /\ sv' = [g.sv EXCEPT !.ops = Append(@, [invoked EXCEPT !.at = "initialize"])]
             /\ UNCHANGED <<initialized, isInitialized>>
  /\ UNCHANGED svcVars

\* the isAvailable awaited by the provider.initialize of call i settles: with
\* true the provider and then the service are marked initialized and the
\* call goes on; with false, or when it throws, initialize throws
FacadeInitialize(i, outcome) ==
  /\ i \in 1..Len(sv.ops)
  /\ sv.ops[i].at = "initialize"
  /\ IF outcome = "true"
     THEN /\ isInitialized' = TRUE
          /\ initialized' = TRUE
          /\ sv' = LET p == proceed(sv, [sv.ops[i] EXCEPT !.initOk = TRUE])
                   IN [p.sv EXCEPT !.ops[i] = p.op]
     ELSE /\ sv' = [sv EXCEPT !.ops[i] = failed(@)]
          /\ UNCHANGED <<initialized, isInitialized>>
  /\ UNCHANGED svcVars

\* the provider's isAvailable, sendEmail or validateCredentials called by
\* call i settles: it returns its positive or negative answer, or throws
FacadeOperation(i, outcome) ==
  /\ i \in 1..Len(sv.ops)
  /\ sv.ops[i].at = "operation"
  /\ LET op == sv.ops[i]
     IN sv' = [sv EXCEPT !.ops[i] =
                 CASE outcome = "throw" -> failed(op)
                   [] outcome = "true" ->
                        [op EXCEPT !.at = "done",
                                   !.result = IF op.kind = "sendEmail" THEN "ok" ELSE "true"]
                   [] outcome = "false" ->
                        [op EXCEPT !.at = "done",
                                   !.result = IF op.kind = "sendEmail" THEN "fail" ELSE "false"]]
  /\ UNCHANGED <<svcVars, initialized, isInitialized>>

FacadeNext ==
  \/ \E option \in ProviderOptions, hasValidate \in BOOLEAN :
       FacadeCreate(option, hasValidate)
  \/ \E kind \in ServiceKinds : FacadeCall(kind)
  \/ \E i \in 1..MaxOps, outcome \in {"true", "false", "throw"} :
       FacadeInitialize(i, outcome)
  \/ \E i \in 1..MaxOps, outcome \in {"true", "false", "throw"} :
       FacadeOperation(i, outcome)

FacadeSpec == Init /\ [][FacadeNext]_vars

\* ------------------------------------------------------- buildMimeMessage
MaxAttachments == 2   \* most attachments a caller passes
MaxContent == 120     \* longest attachment content, in bytes or characters

\* the i-th byte of a Buffer content and the i-th code point of a string
\* content: all byte values occur, and code points on both sides of 128
ByteAt(i) == (i * 37 + 11) % 256
CodePointAt(i) == (i * 53 + 7) % 300

\* an attachment of n bytes, or of n characters when it is given as a string
Attachment(name, n, isString) ==
  [filename |-> <<name>>,
   content |-> [i \in 1..n |-> IF isString THEN CodePointAt(i) ELSE ByteAt(i)],
   isString |-> isString, contentType |-> <<>>, disposition |-> <<>>, cid |-> <<>>]

\* the attachments of the messages below: the odd ones are Buffers with a
\* content type, the even ones strings with a content id, shown inline
AttachmentNo(i) ==
  IF i % 2 = 1
  THEN [Attachment("f1", 2, FALSE) EXCEPT !.contentType = <<"text/csv">>]
  ELSE [Attachment("f2", 3, TRUE) EXCEPT !.cid = <<"c", "i", "d">>,
                                          !.disposition = <<"inline">>]

Header(key, value) == [key |-> <<key>>, value |-> value]

\* subjects, bodies and custom headers with and without line breaks, blank
\* lines and lines that look like a boundary
Subjects == { <<"s">>, <<"s", CR, LF, "x">> }
Texts == { <<>>, <<"t">>, <<"a", CR, LF, "b", CR, LF>>, <<"-", "-", "x", CR, LF, "-", "-">> }
Htmls == { <<>>, <<"h">> }
HeaderSets ==
  { <<>>,
    <<Header("X-A", <<"v">>)>>,
    <<Header("X-B", <<"w">>), Header("X-A", <<"v">>)>>,
    <<Header("X-A", <<"v", CR, LF, CR, LF, "w">>)>> }
Addressings ==
  { [cc |-> Missing, bcc |-> Missing, replyTo |-> Missing],
    [cc |-> One(AddrB), bcc |-> Missing, replyTo |-> Missing],
    [cc |-> Missing, bcc |-> Many(<<AddrA, AddrB>>), replyTo |-> One(AddrB)],
    [cc |-> Many(<<AddrB>>), bcc |-> One(AddrA), replyTo |-> One(AddrA)] }

\* the messages that differ in structure
StructurePool ==
  { [BaseOptions EXCEPT !.subject = subject, !.text = text, !.html = html,
                        !.headers = headers, !.cc = a.cc, !.bcc = a.bcc,
                        !.replyTo = a.replyTo, !.to = Many(<<AddrB, AddrA>>),
                        !.attachments = [i \in 1..n |-> AttachmentNo(i)]] :
      subject \in Subjects, text \in Texts, html \in Htmls, headers \in HeaderSets,
      a \in Addressings, n \in 0..MaxAttachments }

\* the messages that differ in the content of their attachment
ContentPool ==
  { [BaseOptions EXCEPT !.attachments = <<Attachment("f1", n, isString)>>] :
      n \in 0..MaxContent, isString \in BOOLEAN }

\* the valid messages callers pass to buildMimeMessage
MimePool == {o \in StructurePool \cup ContentPool : validateEmailOptions(o) = <<>>}

mimeVars == <<mainVars, rt, cs, sv, rq, pl>>

\* a caller calls buildMimeMessage(options)
BuildMimeMessage(o) ==
  /\ ~mm.built
  /\ mm' = [built |-> TRUE, opts |-> o, message |-> buildMimeMessage(o)]
  /\ UNCHANGED mimeVars

MimeNext == \E o \in MimePool : BuildMimeMessage(o)

MimeSpec == Init /\ [][MimeNext]_vars

\* ------------------------------------------------------------- makeRequest
MaxChunks == 2     \* most 'data' events of one response

\* res.statusCode of a response: <<>> is undefined, <<n>> the number n
StatusCodes == {<<>>} \cup {<<n>> : n \in {199, 200, 204, 299, 300, 401, 500}}

\* JSON.parse(body), for bodies made of the pieces "{", "}" and "x": "{}" is
\* the one of them that is JSON
JSONparse(body) ==
  IF body = <<"{", "}">> THEN [ok |-> TRUE, value |-> "object"]
  ELSE [ok |-> FALSE, value |-> "SyntaxError"]

\* new Error(`[unemail] [${component}] ${message}`, opts): of opts the Error
\* constructor keeps the cause, nothing else
createError(component, message, opts) ==
  [message |-> <<"[unemail] [", component, "] ">> \o message, cause |-> opts.cause]

\* error: undefined; an error has no cause (<<>>) or one (<<cause>>)
NoRequestError == [message |-> <<>>, cause |-> <<>>]

\* the promise is settled by the first call of resolve; later calls do nothing
resolve(promise, value) ==
  IF promise.state = "none" THEN [state |-> "fulfilled", value |-> value]
  ELSE promise

\* const isSuccess = res.statusCode !== undefined && res.statusCode >= 200 && res.statusCode < 300
isSuccess(statusCode) ==
  statusCode # <<>> /\ statusCode[1] >= 200 /\ statusCode[1] < 300

\* the body handed over: parsed when the content type is JSON and the text
\* parses, the raw text otherwise
parsedBody(res, body) ==
  IF res.contentType = "application/json" /\ JSONparse(body).ok
  THEN JSONparse(body).value
  ELSE body

\* the value the 'end' listener of the response resolves with
endValue(res, chunks) ==
  [success |-> isSuccess(res.statusCode),
   data |-> [statusCode |-> res.statusCode, contentType |-> res.contentType,
             body |-> parsedBody(res, chunks)],
   error |-> IF isSuccess(res.statusCode) THEN NoRequestError
             ELSE createError("http", <<"Request failed with status ">> \o res.statusCode,
                              [cause |-> <<>>])]

\* the value the 'error' listener of the request resolves with
errorValue(err) ==
  [success |-> FALSE,
   data |-> "undefined",
   error |-> createError("http", <<"Request failed: ">> \o err.message,
                         [cause |-> <<err>>])]

\* the error of a socket that failed
SocketError == [message |-> <<"ECONNRESET">>, cause |-> <<>>]

\* the error the timeout callback destroys the request with
TimeoutError(timeout) ==
  createError("http", <<"Request timed out after ", timeout, "ms">>, [cause |-> <<>>])

requestVars == <<mainVars, rt, cs, sv, mm, pl>>

\* makeRequest(url, {timeout}, data): the executor of the promise runs to its
\* end.  new URL(url) throws for a string that is no URL, and what the
\* executor throws rejects the promise; otherwise the request is created
\* with its listeners, the timer is set when options.timeout is truthy, the
\* data is written and the request is ended.
MakeRequest(url, timeout, data) ==
  /\ rq.at = "idle"
  /\ rq' = IF url = "invalid"
           THEN [rq EXCEPT !.at = "settled", !.url = url, !.timeout = timeout,
                           !.data = data,
                           !.promise = [state |-> "rejected", value |-> "TypeError"]]
           ELSE [rq EXCEPT !.at = "sent", !.url = url, !.timeout = timeout,
                           !.data = data]
  /\ UNCHANGED requestVars

\* the head of the response arrives: the callback of request() registers the
\* 'data' and 'end' listeners
RequestResponse(statusCode, contentType) ==
  /\ rq.at = "sent"
  /\ rq' = [rq EXCEPT !.at = "response",
                      !.res = [statusCode |-> statusCode, contentType |-> contentType],
                      !.events = Append(@, "response")]
  /\ UNCHANGED requestVars

\* res.on('data', chunk => chunks.push(chunk))
RequestData(chunk) ==
  /\ rq.at = "response"
  /\ Len(rq.chunks) < MaxChunks
  /\ rq' = [rq EXCEPT !.chunks = Append(@, chunk)]
  /\ UNCHANGED requestVars

\* res.on('end', ...): the response completed
RequestEnd ==
  /\ rq.at = "response"
  /\ rq' = [rq EXCEPT !.at = "ended",
                      !.events = Append(@, "end"),
                      !.resolves = @ + 1,
                      !.promise = resolve(@, endValue(rq.res, rq.chunks))]
  /\ UNCHANGED requestVars

\* the socket fails while the request is alive, that is, not destroyed and
\* its response not ended: req.on('error', ...)
RequestError ==
  /\ rq.at \in {"sent", "response"}
  /\ rq' = [rq EXCEPT !.at = "failed",
                      !.events = Append(@, "error"),
                      !.resolves = @ + 1,
                      !.promise = resolve(@, errorValue(SocketError))]
  /\ UNCHANGED requestVars

\* the timer set by req.setTimeout fires while the request is alive: the
\* callback destroys the request with its error, and the response is dropped
RequestTimeout ==
  /\ rq.at \in {"sent", "response"}
  /\ rq.timeout # 0
  /\ rq' = [rq EXCEPT !.at = "destroyed", !.events = Append(@, "timeout")]
  /\ UNCHANGED requestVars

\* the destroyed request emits 'error' with the error it was destroyed with
RequestDestroyed ==
  /\ rq.at = "destroyed"
  /\ rq' = [rq EXCEPT !.at = "failed",
                      !.events = Append(@, "error"),
                      !.resolves = @ + 1,
                      !.promise = resolve(@, errorValue(TimeoutError(rq.timeout)))]
  /\ UNCHANGED requestVars

\* callers pass a url that new URL() parses (named by its protocol) or one it
\* does not, and a timeout in ms or none (0); a response has a content type
\* or none and its body arrives in pieces
RequestNext ==
  \/ \E url \in {"http:", "https:", "invalid"}, timeout \in {0, 1000}, data \in BOOLEAN :
       MakeRequest(url, timeout, data)
  \/ \E statusCode \in StatusCodes,
        contentType \in {"none", "application/json", "text/plain"} :
       RequestResponse(statusCode, contentType)
  \/ \E chunk \in {"{", "}", "x"} : RequestData(chunk)
  \/ RequestEnd
  \/ RequestError
  \/ RequestTimeout
  \/ RequestDestroyed

RequestSpec == Init /\ [][RequestNext]_vars


\* ------------------------------------------------- the connection pool
\* The provider created with pool: true keeps its connections in a pool: a
\* send takes an idle connection, or opens one while there are fewer than
\* maxConnections, or waits in line; a send that is done hands its
\* connection back when its QUIT/close completed cleanly, and the
\* connection is destroyed otherwise.
MaxPool == 2        \* largest maxConnections a caller passes
MaxPoolSends == 4   \* sends made on one pooled provider

poolVars == <<mainVars, rt, cs, sv, mm, rq>>

\* one more connection may be opened
hasRoomForOneMore(pool) == Cardinality(pool.conns) <= pool.maxConnections

hasRoom(pool) == Cardinality(pool.conns) < pool.maxConnections

\* connection c is given to send s
give(pool, c, s) ==
  [pool EXCEPT !.conns = @ \cup {c},
               !.idle = @ \ {c},
               !.owner = [x \in DOMAIN @ \cup {c} |-> IF x = c THEN s ELSE @[x]]]

\* send s opens a connection of its own
open(pool, s) == [give(pool, pool.made + 1, s) EXCEPT !.made = @ + 1]

\* the send at the head of the line is served
serve(pool) ==
  [pool EXCEPT !.waiters = Tail(@), !.served = Append(@, Head(pool.waiters))]

\* connection c is given up by the send that had it
leave(pool, c) ==
  [pool EXCEPT !.owner = [x \in DOMAIN @ \ {c} |-> @[x]]]

\* createProvider({pool: true, maxConnections})
CreatePool(maxConnections) ==
  /\ pl.maxConnections = 0
  /\ pl' = [pl EXCEPT !.maxConnections = maxConnections]
  /\ UNCHANGED poolVars

\* a send asks for a connection
PoolAcquire ==
  /\ pl.maxConnections > 0
  /\ pl.asked < MaxPoolSends
  /\ LET s == pl.asked + 1
         asking == [pl EXCEPT !.asked = s]
     IN IF pl.idle # {}
        THEN \E c \in pl.idle : pl' = give(asking, c, s)
        ELSE IF hasRoom(pl)
             THEN pl' = open(asking, s)
             ELSE pl' = [asking EXCEPT !.waiters = Append(@, s),
                                       !.waited = Append(@, s)]
  /\ UNCHANGED poolVars

\* the send that has connection c is done and its QUIT/close completed
\* cleanly or not: a clean connection goes back to the pool, to the head of
\* the line if sends wait; another is destroyed, and the head of the line
\* opens one in its place
PoolRelease(c, clean) ==
  /\ c \in DOMAIN pl.owner
  /\ LET done == [leave(pl, c) EXCEPT
                    !.closed = Append(@, [conn |-> c, clean |-> clean])]
         kept == [done EXCEPT !.idle = @ \cup {c}]
         gone == [done EXCEPT !.conns = @ \ {c}]
     IN pl' = IF clean
              THEN IF pl.waiters # <<>>
                   THEN give(serve(kept), c, Head(pl.waiters))
                   ELSE kept
              ELSE IF pl.waiters # <<>> /\ hasRoom(gone)
                   THEN open(serve(gone), Head(pl.waiters))
                   ELSE gone
  /\ UNCHANGED poolVars

PoolNext ==
  \/ \E maxConnections \in 1..MaxPool : CreatePool(maxConnections)
  \/ PoolAcquire
  \/ \E c \in 1..MaxPoolSends, clean \in BOOLEAN : PoolRelease(c, clean)

PoolSpec == Init /\ [][PoolNext]_vars

\* ================================================================== claims
Finished == pc = "idle" /\ result.status # "none"

Rejected(i) == replied[i] \notin expectedCodes(written[i].kind)

\* C1 (no pipelining): while a command written by sendSmtpCommand awaits its
\* reply, no byte of the server's answer to an earlier command is still
\* unread (the earlier reply was received through its terminal line before
\* the command was written); and no command is ever settled on a line that
\* the server sent in answer to another command.
C1_NoPipelining ==
  /\ pc = "wait_reply" =>
        \A i \in 1..Len(inflight) : inflight[i][2] = 0 \/ inflight[i][2] >= step
  /\ ~hist.misread

\* C2 (reply completeness): sendSmtpCommand resolves or rejects only when
\* its buffer holds a terminal reply line (CRLF-terminated, 4th character a
\* space).
C2_SettlesOnTerminalLine == ~hist.early

C4_ClosedSocketSettlesCall ==
  (pc = "wait_reply" /\ txSock = "closed") ~> Finished

\* C9 (never throws): every call that is over has returned a Result, and a
\* failure Result carries a defined error; no call ends in a rejection.
C9_AlwaysAResult ==
  /\ result.status \in {"none", "ok", "fail"}
  /\ (pc = "idle" /\ calls > 0) => result.status \in {"ok", "fail"}
  /\ result.status = "fail" => result.layer # "" /\ result.cause # NoError

\* a failure inside the provider, returned through the facade as a Result
C9_Witness ==
  /\ Finished
  /\ via = "service"
  /\ result.status = "fail"
  /\ result.cause.kind \in {"timeout", "connection", "greeting", "reply"}

\* C5 (command order): a successful send wrote exactly EHLO, the AUTH steps
\* when credentials are configured, MAIL FROM, the RCPT TOs, DATA, the
\* payload and QUIT, in that order, every one of them accepted by the server
\* with its expected code, and returned a generated message id.
C5_OrderedAndAccepted ==
  result.status = "ok" =>
    /\ written = [i \in 1..Len(commands) |-> commandText(commands[i], emailOpts)]
                   \o <<Cmd("QUIT", <<>>)>>
    /\ result.data = "messageId"
    /\ \A i \in 1..Len(commands) :
          i <= Len(replied) /\ replied[i] \in expectedCodes(commands[i].kind)

\* the commands of one kind among those written, in the order written
RECURSIVE ofKind(_, _)
ofKind(cmds, kind) ==
  IF cmds = <<>> THEN <<>>
  ELSE (IF Head(cmds).kind = kind THEN <<Head(cmds)>> ELSE <<>>)
       \o ofKind(Tail(cmds), kind)

\* C6 (recipients): once DATA is written, the RCPT TO commands written are
\* the addresses of to, then cc, then bcc, none dropped or merged, and the
\* server answered 250 to every one of them.
C6_RcptBeforeData ==
  (\E d \in 1..Len(written) : written[d].kind = "DATA") =>
    /\ ofKind(written, "RCPT") = rcptCommands(recipients(emailOpts))
    /\ \A i \in 1..Len(written) :
          written[i].kind = "RCPT" => i <= Len(replied) /\ replied[i] = C250

\* C7 (short circuit): once the server has rejected a command, nothing but
\* QUIT is written after it, and the finished call reports success:false
\* whose cause is that rejecting reply.
C7_FailureShortCircuits ==
  \A i \in 1..Len(replied) :
    (written[i].kind # "QUIT" /\ Rejected(i)) =>
       /\ \A j \in (i + 1)..Len(written) : written[j].kind = "QUIT"
       /\ Finished => result.status = "fail" /\ result.cause.kind = "reply"

\* C8 (success means accepted): success:true is returned only when the
\* server answered 250 to the payload and accepted EHLO, MAIL FROM, every
\* RCPT TO and DATA of this send.
C8_SuccessOnlyIfAccepted ==
  result.status = "ok" =>
    /\ \E p \in 1..Len(replied) : written[p].kind = "PAYLOAD" /\ replied[p] = C250
    /\ \A i \in 1..Len(written) :
          written[i].kind \in {"EHLO", "MAIL", "RCPT", "DATA"} =>
             i <= Len(replied) /\ ~Rejected(i)

\* C10 (validation first): a call whose options are invalid opens no socket,
\* neither the availability probe nor the SMTP connection.
C10_ValidationBeforeNetwork ==
  (calls > 0 /\ Len(validateEmailOptions(emailOpts)) > 0) =>
     hist.probeOpens = 0 /\ hist.txOpens = 0

\* C11 (validation): validateEmailOptions returns no error exactly for the
\* options that have a from address, at least one recipient, a subject,
\* text or html, and only well-shaped addresses; so no send writes DATA
\* without having written a RCPT TO.
C11_AcceptsExactlyWellFormed ==
  calls > 0 =>
    LET o == emailOpts
        wellFormed ==
          /\ o.from.k # "missing" /\ o.from.l[1] # <<>>
          /\ o.to.k # "missing" /\ Len(o.to.l) >= 1
          /\ o.subject # <<>>
          /\ o.text # <<>> \/ o.html # <<>>
          /\ \A f \in {o.from.l, o.to.l, o.cc.l, o.bcc.l, o.replyTo.l} :
                \A i \in 1..Len(f) : validateEmail(f[i])
    IN /\ (validateEmailOptions(o) = <<>>) <=> wellFormed
       /\ (\E d \in 1..Len(written) : written[d].kind = "DATA") =>
             \E r \in 1..Len(written) : written[r].kind = "RCPT"

AuthKinds == {"AUTH", "USER", "PASS"}

\* C12 (no credentials, no AUTH): without credentials no AUTH LOGIN and no
\* credential line is written, and what follows EHLO is MAIL FROM, written
\* only when the server accepted EHLO (or QUIT when the send is given up).
C12_NoCredsNoAuth ==
  ~creds =>
    /\ \A i \in 1..Len(written) : written[i].kind \notin AuthKinds
    /\ Len(written) >= 2 =>
          /\ written[1].kind = "EHLO"
          /\ written[2].kind \in {"MAIL", "QUIT"}
          /\ written[2].kind = "MAIL" => Len(replied) >= 1 /\ replied[1] = C250

\* MAIL FROM written right after an accepted EHLO, no credentials configured
C12_Witness ==
  /\ ~creds
  /\ Len(written) >= 2
  /\ written[2].kind = "MAIL"
  /\ replied[1] = C250

\* C13 (AUTH LOGIN): with credentials, AUTH LOGIN is written only after the
\* server accepted EHLO; AUTH LOGIN, the username and the password are
\* written in that order right after EHLO; once the server has answered one
\* of the three with a code other than the expected one, nothing but QUIT is
\* written after it and the finished send reports success:false; MAIL FROM
\* is written only after the server answered 235 to the password.
C13_AuthLoginSequence ==
  creds =>
    /\ \A i \in 1..Len(written) :
          /\ written[i].kind = "AUTH" =>
                i = 2 /\ Len(replied) >= 1 /\ replied[1] = C250
          /\ written[i].kind = "USER" => i = 3 /\ written[2].kind = "AUTH"
          /\ written[i].kind = "PASS" => i = 4 /\ written[3].kind = "USER"
          /\ written[i].kind = "MAIL" =>
                /\ i = 5 /\ written[4].kind = "PASS"
                /\ Len(replied) >= 4 /\ replied[4] = C235
    /\ \A i \in 1..Len(replied) :
          (written[i].kind \in AuthKinds /\ Rejected(i)) =>
             /\ \A j \in (i + 1)..Len(written) : written[j].kind = "QUIT"
             /\ Finished => result.status = "fail"

\* a send given up at the password step: 334, 334, then 535
C13_Witness ==
  /\ creds
  /\ Finished
  /\ result.status = "fail"
  /\ Len(replied) >= 4
  /\ written[4].kind = "PASS"
  /\ replied[2] = C334 /\ replied[3] = C334 /\ replied[4] = C535
  /\ written[5].kind = "QUIT"

\* C14 (greeting): the connection is handed to sendEmail only after the
\* whole greeting was read, whatever the read events were, so that no byte
\* of the greeting is still unread when the first command is about to be
\* written; and a send fails on its greeting, with the socket destroyed and
\* no command written, only when the server's greeting code is not 220.
C14_GreetingReadWhole ==
  /\ (pc = "send" /\ step = 1 /\ written = <<>>) =>
        \A i \in 1..Len(inflight) : inflight[i][2] # 0
  /\ result.cause.kind = "greeting" =>
        /\ written = <<>>
        /\ txSock = "closed"
        /\ result.cause.code # substring(C220, 0, Len(result.cause.code))

\* C15 (availability): when the greeting the server sends is not 220, the
\* availability check reports the server as unavailable and the provider is
\* not marked initialized.
C15_BadGreetingNotAvailable ==
  (srv.probe # <<>> /\ srv.probe # C220) => ~isInitialized

\* C16 (DATA terminator): the payload written ends with a line that holds
\* only "." and no other line of it holds only ".".
C16_OnlyTerminatorIsDotLine ==
  \A i \in 1..Len(written) :
    written[i].kind = "PAYLOAD" =>
      LET lines == split(written[i].arg)
      IN /\ lines[Len(lines)] = <<".">>
         /\ \A j \in 1..(Len(lines) - 1) : lines[j] # <<".">>

\* C17 (no retry): in one call at most one transaction connection is opened,
\* and what has been written is a beginning of the command list of the send,
\* every entry once, followed at most by one QUIT.
C17_NoRetry ==
  /\ hist.txOpens <= 1
  /\ written # <<>> =>
       \E n \in 0..Len(commands) :
          LET sent == [i \in 1..n |-> commandText(commands[i], emailOpts)]
          IN written = sent \/ written = sent \o <<Cmd("QUIT", <<>>)>>

\* a send the server turned down at MAIL FROM: EHLO and MAIL FROM were
\* written once, then QUIT, on the one connection of the call
C17_Witness ==
  /\ Finished
  /\ ~creds
  /\ result.status = "fail"
  /\ hist.txOpens = 1
  /\ Len(replied) >= 2 /\ replied[2] = C550
  /\ written = <<Cmd("EHLO", <<>>), Cmd("MAIL", AddrA), Cmd("QUIT", <<>>)>>

\* C18 (one connection per send): a finished call whose options passed
\* validation has opened exactly one socket to the server, the availability
\* probe of the first call counted.
C18_OneSocketPerSend ==
  (Finished /\ validateEmailOptions(emailOpts) = <<>>) =>
     hist.probeOpens + hist.txOpens = 1

\* C20 (retry, for a number of retries n >= 0): fn is never invoked more than
\* n + 1 times; when its first invocation succeeds, retry returns after that
\* one invocation; when every invocation fails, retry returns after exactly
\* n + 1 invocations, and what it returns is the failure of the last one.
C20_RetryInvocations ==
  /\ rt.n >= 0 => rt.invocations <= rt.n + 1
  /\ (rt.invocations >= 1 /\ rt.outcomes[1] = "ok") =>
        rt.at = "done" /\ rt.invocations = 1 /\ rt.success /\ rt.from = 1
  /\ (rt.n >= 0 /\ rt.at = "done" /\ \A i \in 1..Len(rt.outcomes) : rt.outcomes[i] # "ok") =>
        /\ rt.invocations = rt.n + 1
        /\ ~rt.success
        /\ rt.from = rt.invocations

\* retry(fn, 2, d) with an fn that always fails has returned after three
\* invocations
C20_Witness ==
  /\ rt.at = "done"
  /\ rt.n = 2
  /\ rt.outcomes = <<"fail", "fail", "fail">>
  /\ ~rt.success

\* the call s as createSmtpConnection leaves it, before any 'data' event
Connected(s) ==
  [s EXCEPT !.at = "wait_greeting", !.step = 0, !.responseBuffer = <<>>,
            !.written = <<>>, !.out = "none", !.result = "none"]

\* the call s running alone on a connection that emits the events chunks
RECURSIVE Alone(_, _)
Alone(s, chunks) ==
  IF chunks = <<>> THEN s
  ELSE Alone(afterData(s, Head(chunks)), Tail(chunks))

\* C19 (overlapping sendEmail calls on one provider are isolated): every call
\* that has connected holds a socket no other call holds; the commands the
\* server received on that socket are exactly the commands this call wrote;
\* and the call's position, reply buffer, command sequence and outcome are
\* those of the same call running alone against the events its own
\* connection emitted, whatever the other calls and connections did meanwhile.
C19_ConcurrentSendsIsolated ==
  \A p \in 1..Len(cs.sends) :
    cs.sends[p].sock # 0 =>
      LET s == cs.sends[p]
          k == s.sock
          alone == Alone(Connected(s), cs.socks[k].delivered)
      IN /\ \A q \in 1..Len(cs.sends) : q # p => cs.sends[q].sock # k
         /\ cs.socks[k].out = s.written
         /\ s.step = alone.step
         /\ s.responseBuffer = alone.responseBuffer
         /\ s.written = alone.written
         /\ s.out = alone.out
         /\ (s.at = alone.at \/ (s.at = "done" /\ alone.at = "wait_close"))
         /\ (s.at = "done" => s.result = alone.out)

\* two calls overlapped on their own connections; the first was rejected by
\* the server and has returned a failure while the second, further along in
\* its own conversation, still waits for a reply
C19_Witness ==
  /\ Len(cs.sends) >= 2
  /\ cs.sends[1].sock # 0
  /\ cs.sends[2].sock # 0
  /\ cs.sends[1].at = "done"
  /\ cs.sends[1].result = "fail"
  /\ Len(cs.sends[1].written) >= 2
  /\ cs.sends[2].at = "wait_reply"
  /\ cs.sends[2].step > cs.sends[1].step
  /\ cs.socks[cs.sends[2].sock].inbox # <<>>

\* C21 (retry stops at the first success): as soon as an invocation of fn has
\* succeeded, retry has returned; that invocation is the last one, every
\* invocation before it failed, and what retry returns is the Result of that
\* invocation, a success, as fn resolved it.
C21_StopsAtFirstSuccess ==
  (\E i \in 1..Len(rt.outcomes) : rt.outcomes[i] = "ok") =>
    LET k == CHOOSE i \in 1..Len(rt.outcomes) :
                 /\ rt.outcomes[i] = "ok"
                 /\ \A j \in 1..(i - 1) : rt.outcomes[j] # "ok"
    IN /\ rt.at = "done"
       /\ rt.invocations = k
       /\ Len(rt.outcomes) = k
       /\ (rt.n >= 0 => k <= rt.n + 1)
       /\ rt.success
       /\ rt.from = k
       /\ rt.error = "none"

\* retry(fn, 3, d) has returned the success of the third invocation, after a
\* returned failure and a thrown one
C21_Witness ==
  /\ rt.at = "done"
  /\ rt.n = 3
  /\ rt.outcomes = <<"fail", "throw", "ok">>
  /\ rt.success
  /\ rt.from = 3

RECURSIVE Pow2(_)
Pow2(j) == IF j <= 0 THEN 1 ELSE 2 * Pow2(j - 1)

\* C22 (exponential back-off): the j-th wait of a call retry(fn, n, d) lasts
\* d * 2^(j-1); there are never more than n waits; while retry sleeps or
\* invokes fn again there has been one wait per invocation made so far, and
\* when retry has returned there is one wait less than invocations: one wait
\* between two consecutive invocations and none after the last.
C22_DoublingDelay ==
  /\ \A j \in 1..Len(rt.waits) : rt.waits[j] = rt.d * Pow2(j - 1)
  /\ (rt.n >= 0 => Len(rt.waits) <= rt.n)
  /\ (rt.n < 0 => rt.waits = <<>>)
  /\ (rt.at \in {"fn", "sleep"} => Len(rt.waits) = rt.invocations)
  /\ (rt.at = "done" => Len(rt.waits) = rt.invocations - 1)

\* retry(fn, 3, 10) has returned after four failures and waits of 10, 20
\* and 40 ms
C22_Witness ==
  /\ rt.at = "done"
  /\ rt.n = 3
  /\ rt.d = 10
  /\ rt.invocations = 4
  /\ rt.waits = <<10, 20, 40>>

\* the invocations retry(fn, n, d) allows: one, and one more per retry
Allowed(n) == IF n <= 0 THEN 1 ELSE n + 1

\* C29 (retry never rejects and terminates): a call of retry whose fn settles
\* every time returns a Result, whatever mix of returned failures and thrown
\* exceptions fn produces; fn is never invoked more than n + 1 times (once
\* when n <= 0, negative n included); a thrown exception leads to the same
\* next step as a returned failure: a sleep when a retry is left, the return
\* when none is; and when the last allowed invocation throws an Error, retry
\* returns success:false with that Error.
C29_NeverRejectsTerminates ==
  /\ [](rt.at = "fn" => <>(rt.at = "done"))
  /\ [](rt.invocations <= Allowed(rt.n))
  /\ [](rt.at = "sleep" =>
          /\ rt.outcomes[Len(rt.outcomes)] # "ok"
          /\ rt.invocations < Allowed(rt.n))
  /\ [](rt.at = "done" /\ rt.outcomes[Len(rt.outcomes)] # "ok" =>
          /\ rt.invocations = Allowed(rt.n)
          /\ ~rt.success
          /\ rt.from = rt.invocations)
  /\ [](rt.at = "done" /\ rt.outcomes[Len(rt.outcomes)] = "throw" =>
          rt.error = "thrown")

\* retry(fn, 2, d) has returned the Error of the third invocation, after a
\* thrown and a returned failure
C29_Witness ==
  /\ rt.at = "done"
  /\ rt.n = 2
  /\ rt.outcomes = <<"throw", "fail", "throw">>
  /\ ~rt.success
  /\ rt.error = "thrown"

\* C23 (EmailService initialization is idempotent): no call on the service
\* invokes provider.initialize once an invocation made by the service has
\* succeeded, and from then on the service is marked initialized; a call
\* invokes it at most once; isAvailable never invokes it; a sendEmail or
\* validateCredentials made while the service is not initialized invokes it
\* exactly once, and the provider's operation starts only when the service
\* is initialized.
C23_InitializeIdempotent ==
  /\ sv.succeeded => initialized
  /\ \A i \in 1..Len(sv.ops) :
       LET op == sv.ops[i]
       IN op.on = "service" =>
            /\ ~op.late
            /\ op.inits <= 1
            /\ (op.kind = "isAvailable" => op.inits = 0)
            /\ (op.pre => op.inits = 0)
            /\ (op.kind # "isAvailable" /\ ~op.pre => op.inits = 1)
            /\ (op.kind \in {"sendEmail", "validateCredentials"} /\ op.at = "operation"
                  => initialized)

\* a sendEmail on the fresh service initialized the provider and sent; the
\* validateCredentials and the initialize that followed did not invoke
\* provider.initialize
C23_Witness ==
  /\ Len(sv.ops) = 3
  /\ \A i \in 1..3 : sv.ops[i].on = "service" /\ sv.ops[i].at = "done"
  /\ sv.ops[1].kind = "sendEmail" /\ sv.ops[1].inits = 1 /\ sv.ops[1].result = "ok"
  /\ sv.ops[2].kind = "validateCredentials" /\ sv.ops[2].pre /\ sv.ops[2].inits = 0
  /\ sv.ops[3].kind = "initialize" /\ sv.ops[3].inits = 0
  /\ sv.ops[3].result = "resolved"

\* C24 (a provider's initialize and its availability check): an initialize
\* invoked on a provider that is not initialized checks isAvailable exactly
\* once (an initialize on an initialized provider returns without a check);
\* it succeeds and marks the provider initialized exactly when the check
\* returned true; when the check returned false the call fails (initialize
\* rejects, sendEmail returns success false), the provider stays
\* uninitialized, and the sendEmail has not opened its connection or sent
\* its request.
C24_InitializeIffAvailable ==
  /\ isInitialized <=> (\E i \in 1..Len(sv.ops) : sv.ops[i].avail = "true")
  /\ \A i \in 1..Len(sv.ops) :
       LET op == sv.ops[i]
       IN /\ op.checks <= op.inits
          /\ (op.inits = 1 /\ op.preProv => op.checks = 0)
          /\ (op.inits = 1 /\ ~op.preProv /\ op.at # "initialize" => op.checks = 1)
          /\ (op.avail = "true" /\ op.kind = "initialize" => op.result = "resolved")
          /\ (op.avail = "true" /\ op.kind # "initialize" =>
                 op.at = "operation" \/ op.result \in {"ok", "fail", "true", "false"})
          /\ (op.avail = "true" /\ op.kind = "sendEmail" => op.opened)
          /\ (op.avail = "false" =>
                 /\ op.at = "done"
                 /\ op.result = initializeFailed(op.kind)
                 /\ ~op.opened)

\* the provider was not available: its initialize rejected, and the sendEmail
\* made on the still uninitialized provider checked once more and returned a
\* failure without opening a connection
C24_Witness ==
  /\ Len(sv.ops) >= 2
  /\ ~isInitialized
  /\ sv.ops[1].on = "provider" /\ sv.ops[1].kind = "initialize"
  /\ sv.ops[1].avail = "false" /\ sv.ops[1].result = "rejected"
  /\ sv.ops[2].on = "provider" /\ sv.ops[2].kind = "sendEmail"
  /\ sv.ops[2].checks = 1 /\ sv.ops[2].avail = "false"
  /\ sv.ops[2].result = "fail" /\ ~sv.ops[2].opened

\* the lines of the message buildMimeMessage returned
MimeLines == split(mm.message)

BoundaryLine == <<"--">> \o generateBoundary
ClosingLine == BoundaryLine \o <<"--">>

\* the fixed texts buildMimeMessage writes at the start of a header or a
\* part, the names of the custom headers and the file names
IsMarker(x) ==
  x \in {"From: ", "To: ", "Cc: ", "Bcc: ", "Reply-To: ", "Subject: ",
         "MIME-Version: 1.0", "Content-Type: multipart/mixed; boundary=\"",
         "--", "text/plain", "text/html", "Content-Transfer-Encoding: base64",
         "X-A", "X-B", "f1", "f2"}

\* the order in which the claim says they appear in the message of o
ExpectedMarkers(o) ==
       <<"From: ", "To: ">>
    \o (IF o.cc.k # "missing" THEN <<"Cc: ">> ELSE <<>>)
    \o (IF o.bcc.k # "missing" THEN <<"Bcc: ">> ELSE <<>>)
    \o (IF o.replyTo.k # "missing" THEN <<"Reply-To: ">> ELSE <<>>)
    \o <<"Subject: ", "MIME-Version: 1.0">>
    \o flatten([i \in 1..Len(o.headers) |-> o.headers[i].key])
    \o <<"Content-Type: multipart/mixed; boundary=\"">>
    \o (IF o.text # <<>> THEN <<"--", "text/plain">> ELSE <<>>)
    \o (IF o.html # <<>> THEN <<"--", "text/html">> ELSE <<>>)
    \o flatten([i \in 1..Len(o.attachments) |->
                  <<"--">> \o o.attachments[i].filename
                  \o <<"Content-Transfer-Encoding: base64">>
                  \o o.attachments[i].filename])
    \o <<"--", "--">>

\* C25 (order of the MIME document): the message holds its headers in the
\* order From, To, Cc, Bcc, Reply-To (each if present), Subject,
\* MIME-Version, the custom headers in the caller's order, the multipart/mixed
\* Content-Type; then the text/plain part (if text), the text/html part (if
\* html) and one part per attachment in input order; the line before the
\* Content-Type line of every part is the boundary line, and the last line of
\* the message is the closing boundary.
C25_HeaderAndPartOrder ==
  mm.built =>
    LET lines == MimeLines
    IN /\ SelectSeq(mm.message, IsMarker) = ExpectedMarkers(mm.opts)
       /\ lines[Len(lines)] = ClosingLine
       /\ \A i \in 1..Len(lines) :
            (lines[i] # <<>> /\ lines[i][1] = "Content-Type: ")
              => (i > 1 /\ lines[i - 1] = BoundaryLine)

\* a message with cc, bcc, reply-to, two custom headers, both bodies and two
\* attachments has been built
C25_Witness ==
  /\ mm.built
  /\ mm.opts.cc.k # "missing" /\ mm.opts.bcc.k # "missing"
  /\ mm.opts.replyTo.k # "missing"
  /\ Len(mm.opts.headers) = 2
  /\ mm.opts.text # <<>> /\ mm.opts.html # <<>>
  /\ Len(mm.opts.attachments) = 2

\* the elements of a set of numbers in increasing order
Sorted(S) ==
  [k \in 1..Cardinality(S) |->
     CHOOSE d \in S : Cardinality({e \in S : e < d}) = k - 1]

\* the parts of a message: the lines between one boundary line and the
\* next, the last part ending at the closing boundary
partsOf(lines) ==
  LET starts == Sorted({i \in 1..Len(lines) : lines[i] = BoundaryLine})
      stop == CHOOSE i \in 1..Len(lines) :
                 lines[i] = ClosingLine /\ \A j \in 1..(i - 1) : lines[j] # ClosingLine
  IN [k \in 1..Len(starts) |->
        SubSeq(lines, starts[k] + 1,
               (IF k < Len(starts) THEN starts[k + 1] ELSE stop) - 1)]

\* the body of a part: the lines after the empty line that ends the part's
\* headers, without the empty line that ends the part
partBody(part) ==
  LET e == CHOOSE i \in 1..Len(part) :
              part[i] = <<>> /\ \A j \in 1..(i - 1) : part[j] # <<>>
  IN SubSeq(part, e + 1, Len(part) - 1)

\* the bytes a base64 text stands for
base64Decode(chars) ==
  LET val(c) == IF c = "=" THEN 0
                ELSE (CHOOSE i \in 1..64 : Base64Alphabet[i] = c) - 1
      group(g) ==
        LET c == SubSeq(chars, 4 * g - 3, 4 * g)
            v == val(c[1]) * 262144 + val(c[2]) * 4096 + val(c[3]) * 64 + val(c[4])
            n == IF c[3] = "=" THEN 1 ELSE IF c[4] = "=" THEN 2 ELSE 3
        IN SubSeq(<<v \div 65536, (v \div 256) % 256, v % 256>>, 1, n)
  IN flatten([g \in 1..(Len(chars) \div 4) |-> group(g)])

\* the bytes of the content of an attachment
contentBytes(attachment) ==
  IF attachment.isString THEN utf8(attachment.content) ELSE attachment.content

\* the body lines of the part of the k-th attachment of the message built
AttachmentBody(k) ==
  LET o == mm.opts
      before == (IF o.text # <<>> THEN 1 ELSE 0) + (IF o.html # <<>> THEN 1 ELSE 0)
  IN partBody(partsOf(MimeLines)[before + k])

\* C26 (attachment bodies are base64 in lines of 76): in the message built,
\* the body of every attachment part consists of lines of at most 76
\* characters, all but the last of exactly 76; the lines put together are a
\* base64 text of 4 characters per 3 bytes that decodes to the bytes of the
\* attachment's content: the Buffer's bytes, or the UTF-8 bytes of the string.
C26_Base64Lines76 ==
  mm.built =>
    \A k \in 1..Len(mm.opts.attachments) :
      LET lines == AttachmentBody(k)
          text == flatten(lines)
          bytes == contentBytes(mm.opts.attachments[k])
      IN /\ Len(lines) >= 1
         /\ \A i \in 1..Len(lines) : Len(lines[i]) <= 76
         /\ \A i \in 1..(Len(lines) - 1) : Len(lines[i]) = 76
         /\ (text # <<>> => lines[Len(lines)] # <<>>)
         /\ Len(text) = 4 * ((Len(bytes) + 2) \div 3)
         /\ \A i \in 1..Len(text) : text[i] \in {"="} \cup {Base64Alphabet[j] : j \in 1..64}
         /\ base64Decode(text) = bytes

\* a message has been built whose attachment, given as a string with
\* characters that take two bytes, fills two lines of 76 and part of a third
C26_Witness ==
  /\ mm.built
  /\ Len(mm.opts.attachments) = 1
  /\ mm.opts.attachments[1].isString
  /\ Len(contentBytes(mm.opts.attachments[1])) > Len(mm.opts.attachments[1].content)
  /\ Len(AttachmentBody(1)) = 3
  /\ Len(AttachmentBody(1)[3]) \in 1..75

\* ---- reading a message back: the headers are the lines before the first
\* empty line, the parts are cut at the boundary the message was built with

\* the value of the first header line that starts with name, <<>> when there
\* is none
parseHeader(lines, name) ==
  LET stop == CHOOSE i \in 1..Len(lines) :
                 lines[i] = <<>> /\ \A j \in 1..(i - 1) : lines[j] # <<>>
      hits == {i \in 1..(stop - 1) : lines[i][1] = name}
  IN IF hits = {} THEN <<>>
     ELSE Tail(lines[CHOOSE i \in hits : \A j \in hits : i <= j])

\* the addresses of an address list, which ", " separates
RECURSIVE parseAddresses(_)
parseAddresses(value) ==
  LET hits == {i \in 1..Len(value) : value[i] = ", "}
  IN IF hits = {} THEN <<value>>
     ELSE LET i == CHOOSE h \in hits : \A j \in hits : h <= j
          IN <<SubSeq(value, 1, i - 1)>> \o parseAddresses(SubSeq(value, i + 1, Len(value)))

\* the body of the first part of the given content type, <<>> when there is
\* none
parseBody(parts, type) ==
  LET hits == {k \in 1..Len(parts) :
                 Len(parts[k][1]) >= 2 /\ parts[k][1][2] = type}
  IN IF hits = {} THEN <<>>
     ELSE join(partBody(parts[CHOOSE k \in hits : \A j \in hits : k <= j]), <<CR, LF>>)

\* the file names of the parts that have a Content-Disposition, in order
parseFilenames(parts) ==
  LET isAttachment(part) ==
        \E i \in 1..Len(part) : part[i] # <<>> /\ part[i][1] = "Content-Disposition: "
      filename(part) ==
        LET line == part[CHOOSE i \in 1..Len(part) :
                           part[i] # <<>> /\ part[i][1] = "Content-Disposition: "]
            at == CHOOSE i \in 1..Len(line) : line[i] = "; filename=\""
        IN SubSeq(line, at + 1, Len(line) - 1)
      which == Sorted({k \in 1..Len(parts) : isAttachment(parts[k])})
  IN [n \in 1..Len(which) |-> filename(parts[which[n]])]

\* what reading the message built gives back
Parsed ==
  LET lines == MimeLines
      parts == partsOf(lines)
  IN [subject |-> parseHeader(lines, "Subject: "),
      from |-> parseHeader(lines, "From: "),
      to |-> parseAddresses(parseHeader(lines, "To: ")),
      text |-> parseBody(parts, "text/plain"),
      html |-> parseBody(parts, "text/html"),
      filenames |-> parseFilenames(parts)]

\* what of the options the claim says is recovered
Original ==
  [subject |-> mm.opts.subject,
   from |-> mm.opts.from.l[1],
   to |-> mm.opts.to.l,
   text |-> mm.opts.text,
   html |-> mm.opts.html,
   filenames |-> [i \in 1..Len(mm.opts.attachments) |-> mm.opts.attachments[i].filename]]

\* C27 (round trip): reading back the message buildMimeMessage built gives
\* the subject, the from and to addresses, the text and html bodies and the
\* attachments' file names (and so their number) of the options it was built
\* from, also when subject, bodies or custom header values hold line breaks
\* or lines that look like a boundary.
C27_RoundTrip == mm.built => Parsed = Original

\* ---- C30
RequestSettled == rq.promise.state = "fulfilled"

\* a response completed: its 'end' event was delivered
Completed == rq.events # <<>> /\ rq.events[Len(rq.events)] = "end"

\* the request failed: its 'error' event was delivered
Errored == rq.events # <<>> /\ rq.events[Len(rq.events)] = "error"

\* C30: the promise of makeRequest is never rejected and is resolved exactly
\* once, by the first of response end, socket error and timeout, whatever
\* their order: with success true exactly when a response completed with a
\* status code in 200..299, with success false and the status code when a
\* response completed with another status, and with success false and an
\* error when the request failed or timed out.
C30_ResolvesOnceNeverRejects ==
  /\ rq.promise.state # "rejected"
  /\ rq.resolves <= 1
  /\ RequestSettled <=> (Completed \/ Errored)
  /\ RequestSettled =>
       /\ rq.promise.value.success
            <=> (Completed /\ rq.res.statusCode \in {<<n>> : n \in 200..299})
       /\ (Completed /\ rq.res.statusCode \notin {<<n>> : n \in 200..299}) =>
            /\ rq.promise.value.data.statusCode = rq.res.statusCode
            /\ rq.promise.value.error # NoRequestError
       /\ Errored =>
            /\ rq.promise.value.error # NoRequestError
            /\ ("timeout" \in {rq.events[i] : i \in 1..Len(rq.events)})
                 <=> rq.promise.value.error.cause = <<TimeoutError(rq.timeout)>>

\* ---- C28
\* the connections that were closed uncleanly
Unclean == {pl.closed[i].conn : i \in {j \in 1..Len(pl.closed) : ~pl.closed[j].clean}}

\* C28: with pooling on, there are never more than maxConnections
\* connections; a send waits only when no connection is free and none may be
\* opened, and the waiting sends are served in the order they came; a
\* connection whose QUIT/close did not complete cleanly is not in the pool
\* afterwards, nor in the hands of a send.
C28_PoolBoundFifoCleanReturn ==
  /\ Cardinality(pl.conns) <= pl.maxConnections
  /\ pl.idle \subseteq pl.conns
  /\ DOMAIN pl.owner = pl.conns \ pl.idle
  /\ pl.waiters # <<>> =>
       /\ pl.idle = {}
       /\ Cardinality(pl.conns) = pl.maxConnections
  /\ pl.waited = pl.served \o pl.waiters
  /\ \A i, j \in 1..Len(pl.waited) : i < j => pl.waited[i] < pl.waited[j]
  /\ pl.conns \cap Unclean = {}

\* two sends waited and were served in turn, one connection was closed
\* cleanly and reused, another was destroyed
C28_Witness ==
  /\ Len(pl.served) >= 2
  /\ Unclean # {}
  /\ \E i \in 1..Len(pl.closed) :
       pl.closed[i].clean /\ pl.closed[i].conn \in DOMAIN pl.owner

\* ---- C33
\* the server accepted EHLO, AUTH LOGIN, the username and the password
AuthAccepted ==
  Len(replied) >= 4 /\ SubSeq(replied, 1, 4) = <<C250, C334, C334, C235>>

\* validateCredentials does not end in a rejection, and writes no command of
\* a mail transaction
ValidatesQuietly ==
  /\ result.status \in {"none", "true", "false"}
  /\ \A i \in 1..Len(written) :
       written[i].kind \notin {"MAIL", "RCPT", "DATA", "PAYLOAD"}

\* C33 as the claim states it: validateCredentials never throws and writes
\* no MAIL FROM, RCPT TO or DATA; without credentials it returns true and
\* opens no transaction connection; with credentials it returns true exactly
\* when EHLO and the three AUTH LOGIN steps were accepted; when it returns,
\* every socket it opened is closed.
C33_ValidateClosesAll ==
  /\ ValidatesQuietly
  /\ Finished =>
       /\ ~creds => result.status = "true" /\ hist.txOpens = 0
       /\ creds => (result.status = "true" <=> AuthAccepted)
       /\ txSock \in {"none", "closed"}
       /\ probeSock \in {"none", "closed"}

\* C33 as amended: validateCredentials never throws and writes no MAIL FROM,
\* RCPT TO or DATA; without credentials it opens no transaction connection
\* and returns true exactly when the availability probe connected; with
\* credentials it returns true exactly when EHLO and the three AUTH LOGIN
\* steps were accepted; when it returns, the transaction connection it
\* opened has been released, once, and the socket of the availability probe
\* has been ended but may be released only later.
C33_ValidateCredentials ==
  /\ ValidatesQuietly
  /\ Finished =>
       /\ ~creds => /\ hist.txOpens = 0
                    /\ result.status = "true" <=> srv.probe # <<>>
       /\ creds => (result.status = "true" <=> AuthAccepted)
       /\ txSock \in {"none", "closed"}
       /\ hist.txCloses = hist.txOpens
       /\ probeSock \in {"ended", "closed"}

\* credentials accepted: true was returned after QUIT on a released
\* connection
C33_Witness ==
  /\ via = "validate"
  /\ creds
  /\ Finished
  /\ result.status = "true"
  /\ AuthAccepted
  /\ Len(written) = 5 /\ written[5].kind = "QUIT"
  /\ txSock = "closed"

\* ---- C35
\* C35 (listener discipline): at most one 'data' listener is attached to the
\* socket at any moment; the listener of a sendSmtpCommand is attached while
\* its promise is pending and removed once the promise is settled; a promise
\* is settled at most once; no byte of the reply to a command of
\* sendSmtpCommand is delivered while no listener is attached; and the
\* listener of a command is given only bytes the server sent in answer to
\* that command.
C35_ListenerDiscipline ==
  /\ hist.listeners <= 1
  /\ hist.listeners = 1 <=> listener # "none"
  /\ pc = "wait_reply" => listener = "cmd" /\ hist.settles = 0
  /\ pc \in {"send", "close", "wait_close"} => listener = "none"
  /\ hist.settles <= 1
  /\ ~hist.lost
  /\ ~hist.crossed
  /\ listener = "cmd" => \A i \in 1..Len(responseBuffer) : responseBuffer[i][2] = step

\* ---- C34
\* C34: sendEmail of the Resend provider makes at most r + 1 POST requests,
\* where r is the retries value the provider was configured with (one request
\* for r = 0) and 3 when none was given; and it makes no request after the
\* first that succeeded.
C34_AtMostConfiguredRetries ==
  /\ rt.invocations <=
       (IF rt.configured = <<>> THEN DEFAULT_RETRIES ELSE rt.configured[1]) + 1
  /\ \A i \in 1..Len(rt.outcomes) :
       rt.outcomes[i] = "ok" => i = Len(rt.outcomes) /\ rt.at = "done"

\* ---- C31
\* a step of call i: the call is made or moves on
Steps(i) ==
  /\ i \in 1..Len(sv'.ops)
  /\ i > Len(sv.ops) \/ sv.ops[i] # sv'.ops[i]

\* C31 (EmailService.isAvailable and validateCredentials never throw): a
\* call of either is never rejected; it returns false when the construction
\* of the provider, the initialization or the provider's method threw;
\* validateCredentials on a provider without validateCredentials returns
\* true exactly when nothing threw, which is when the service was or became
\* initialized; and no step of an isAvailable call changes the initialized
\* flag of the service.
C31_NeverThrowFalseOnError ==
  /\ [](\A i \in 1..Len(sv.ops) :
          LET op == sv.ops[i]
          IN op.kind \in {"isAvailable", "validateCredentials"} =>
               /\ op.result \in {"none", "true", "false"}
               /\ op.threw => op.at = "done" /\ op.result = "false"
               /\ (op.kind = "validateCredentials" /\ op.at = "done" /\ ~sv.hasValidate) =>
                     /\ op.result = "true" <=> ~op.threw
                     /\ ~op.threw => (op.pre \/ op.initOk) /\ initialized)
  /\ [][\A i \in 1..MaxOps :
          (Steps(i) /\ sv'.ops[i].kind = "isAvailable") => initialized' = initialized]_vars

\* on a service made with a provider instance that has no
\* validateCredentials: isAvailable returned false because the provider's
\* isAvailable threw, and validateCredentials returned true after a
\* successful initialization
C31_Witness ==
  /\ sv.option = "instance"
  /\ ~sv.hasValidate
  /\ Len(sv.ops) >= 2
  /\ sv.ops[1].kind = "isAvailable" /\ sv.ops[1].threw /\ sv.ops[1].result = "false"
  /\ sv.ops[2].kind = "validateCredentials" /\ sv.ops[2].initOk
  /\ sv.ops[2].result = "true"

\* ---- C32
\* C32 (initialization state): the initialized flag of the service and the
\* isInitialized flag of the provider never go back to false; they become
\* true only in a step in which an initialize succeeded; a step in which a
\* call failed leaves both as they were; a sendEmail made while the service
\* is not initialized attempts the initialization (it gets the provider and
\* calls its initialize, unless the provider cannot be constructed); the
\* service makes at most one provider instance, and this.provider, once
\* set, stays the same.
C32_InitializedMonotonic ==
  /\ [](/\ sv.built <= 1
        /\ sv.built = 1 => sv.provider = "built"
        /\ \A i \in 1..Len(sv.ops) :
             LET op == sv.ops[i]
             IN (op.kind = "sendEmail" /\ ~op.pre) =>
                   op.inits = 1 \/ (op.threw /\ sv.provider = "none"))
  /\ [][/\ initialized => initialized'
        /\ isInitialized => isInitialized'
        /\ sv.provider # "none" => sv'.provider = sv.provider
        /\ (initialized' # initialized \/ isInitialized' # isInitialized) =>
              \E i \in 1..MaxOps : Steps(i) /\ sv'.ops[i].initOk
        /\ (\E i \in 1..MaxOps : Steps(i) /\ sv'.ops[i].threw) =>
              initialized' = initialized /\ isInitialized' = isInitialized]_vars

\* the initialization of a first sendEmail failed and left the service
\* uninitialized; the second sendEmail attempted it again, succeeded and
\* sent; the third found the service initialized; one provider was made
C32_Witness ==
  /\ sv.option = "factory"
  /\ sv.built = 1
  /\ Len(sv.ops) = 3
  /\ \A i \in 1..3 : sv.ops[i].kind = "sendEmail" /\ sv.ops[i].at = "done"
  /\ ~sv.ops[1].pre /\ sv.ops[1].inits = 1 /\ sv.ops[1].threw
  /\ ~sv.ops[2].pre /\ sv.ops[2].inits = 1 /\ sv.ops[2].initOk /\ sv.ops[2].result = "ok"
  /\ sv.ops[3].pre /\ sv.ops[3].inits = 0 /\ sv.ops[3].result = "ok"

====
